---- MODULE Spec2Model ----
(***************************************************************************)
(* QQ music downloader: the quality-fallback download of one track         *)
(* (song.py download_song, songlist.py download_single_song) and the       *)
(* batch orchestration of songlist.py download_songlist.                   *)
(*                                                                         *)
(* A download is a coroutine; it is modelled as one action per block of    *)
(* code between two awaits (the event loop switches tasks only there).     *)
(* The answers of the outside world (catalog service, HTTP server, file    *)
(* system, tag library) are drawn with \E in the action that resumes the   *)
(* coroutine after the await.                                              *)
(***************************************************************************)
EXTENDS Integers, Sequences, FiniteSets, TLC

\* ------------------------------------------------------------------ bounds
\* Config.BATCH_SIZE: the window size (5 in songlist.py; scaled down here).
BATCH_SIZE == 2
\* Longest song list handed to download_songlist.
MaxSongs == 3

\* --------------------------------------------------------- program constants
MIN_FILE_SIZE == 1024

\* Payload sizes the HTTP server may answer with.
Sizes == {1023, MIN_FILE_SIZE, MIN_FILE_SIZE + 1, 50000}

\* ------------------------------------------------------------ quality tiers
\* SongFileType.<tier>.e : the file extension of a tier.
Ext(tier) == IF tier \in {"MP3_320", "MP3_128"} THEN ".mp3" ELSE ".flac"

QUALITY_OPTIONS(level) ==
  CASE level = 1 -> <<"MASTER", "ATMOS_2", "ATMOS_51", "FLAC", "MP3_320", "MP3_128">>
    [] level = 2 -> <<"ATMOS_2", "ATMOS_51", "FLAC", "MP3_320", "MP3_128">>
    [] level = 3 -> <<"FLAC", "MP3_320", "MP3_128">>
    [] level = 4 -> <<"MP3_320", "MP3_128">>

\* song.py _get_quality_strategy (prefer_flac)
SingleStrategy(flac) ==
  IF flac THEN <<"FLAC", "MP3_320", "MP3_128">> ELSE <<"MP3_320", "MP3_128">>

\* songlist.py _get_quality_strategy: an unknown level falls back to level 3
ListStrategy(level) ==
  IF level \in 1..4 THEN QUALITY_OPTIONS(level) ELSE QUALITY_OPTIONS(3)

\* ------------------------------------------------------- filename sanitizer
\* Fault model: the list of illegal characters without the asterisk.
IllegalCharsWithoutStar == {"<", ">", ":", "\"", "/", "\\", "|", "?"}

illegal_chars == {"<", ">", ":", "\"", "/", "\\", "|", "?", "*"}
Whitespace == {" ", "\t", "\n", "\r"}

\* filename.replace(char, '_') for every illegal char
ReplaceIllegal(s) == [k \in 1..Len(s) |-> IF s[k] \in illegal_chars THEN "_" ELSE s[k]]

RECURSIVE LStrip(_)
LStrip(s) == IF s # <<>> /\ Head(s) \in Whitespace THEN LStrip(Tail(s)) ELSE s

RECURSIVE RStrip(_)
RStrip(s) ==
  IF s # <<>> /\ s[Len(s)] \in Whitespace THEN RStrip(SubSeq(s, 1, Len(s) - 1)) ELSE s

\* Fault model: a strip that removes one character at each end.
StripOnce(s) ==
  LET l == IF s # <<>> /\ Head(s) \in Whitespace THEN Tail(s) ELSE s
  IN IF l # <<>> /\ l[Len(l)] \in Whitespace THEN SubSeq(l, 1, Len(l) - 1) ELSE l

\* str.strip()
Strip(s) == RStrip(LStrip(s))

sanitize_filename(s) == Strip(ReplaceIllegal(s))

\* None (no URL, no data).
None == [kind |-> "none", host |-> "", id |-> <<>>, size |-> 0]

\* ------------------------------------------------ cover resolver: functions
\* Config.COVER_SIZE
COVER_SIZE == 800

\* size not in [150, 300, 500, 800]
ValidSizes == {150, 300, 500, 800}

\* raise ValueError(...)
ValueError == [kind |-> "raise", host |-> "", id |-> <<>>, size |-> 0]

Url(host, id, size) == [kind |-> "url", host |-> host, id |-> id, size |-> size]

\* CoverManager.get_cover_url_by_album_mid(mid, size)
get_cover_url_by_album_mid(mid, size) ==
  IF mid = <<>> THEN None
  ELSE IF size \notin ValidSizes THEN ValueError
  ELSE Url("album", mid, size)

\* CoverManager.get_cover_url_by_vs(vs, size)
get_cover_url_by_vs(v, size) ==
  IF v = <<>> THEN None
  ELSE IF size \notin ValidSizes THEN ValueError
  ELSE Url("vs", v, size)

\* ',' in vs
HasComma(h) == \E k \in 1..Len(h) : h[k] = ","

\* vs.split(',')
RECURSIVE Split(_)
Split(h) ==
  IF h = <<>> THEN << <<>> >>
  ELSE LET r == Split(Tail(h)) IN
       IF Head(h) = "," THEN << <<>> >> \o r
       ELSE << <<Head(h)>> \o r[1] >> \o Tail(r)

NonEmpty(x) == x # <<>>

\* parts = [part.strip() for part in vs.split(',') if part.strip()]
PartsOf(h) ==
  LET raw == Split(h) IN SelectSeq([k \in 1..Len(raw) |-> Strip(raw[k])], NonEmpty)

Candidate(v, prio, i, j) == [value |-> v, priority |-> prio, i |-> i, j |-> j]

\* The first loop over vs_values: the single tokens of length >= 3.
RECURSIVE SinglesFrom(_, _)
SinglesFrom(vs, i) ==
  IF i > Len(vs) THEN <<>>
  ELSE (IF vs[i] # <<>> /\ Len(vs[i]) >= 3 /\ ~HasComma(vs[i])
          THEN <<Candidate(vs[i], 1, i - 1, 0)>> ELSE <<>>)
       \o SinglesFrom(vs, i + 1)

\* The parts of one comma-joined hint that are at least 3 long.
RECURSIVE LongParts(_, _, _)
LongParts(parts, i, j) ==
  IF j > Len(parts) THEN <<>>
  ELSE (IF Len(parts[j]) >= 3 THEN <<Candidate(parts[j], 2, i - 1, j - 1)>> ELSE <<>>)
       \o LongParts(parts, i, j + 1)

\* The second loop over vs_values: the parts of the comma-joined hints.
RECURSIVE PartsFrom(_, _)
PartsFrom(vs, i) ==
  IF i > Len(vs) THEN <<>>
  ELSE (IF vs[i] # <<>> /\ HasComma(vs[i]) THEN LongParts(PartsOf(vs[i]), i, 1) ELSE <<>>)
       \o PartsFrom(vs, i + 1)

IsPriority1(c) == c.priority = 1
IsPriority2(c) == c.priority = 2

\* candidate_vs.sort(key=lambda x: x['priority']): a stable sort on two keys.
SortByPriority(cs) == SelectSeq(cs, IsPriority1) \o SelectSeq(cs, IsPriority2)

\* Fault model: the candidates collected in one pass, in list order.
RECURSIVE CandidatesInListOrder(_)
CandidatesInListOrder(vs) ==
  IF vs = <<>> THEN <<>>
  ELSE LET n == Len(vs)
           rest == CandidatesInListOrder(SubSeq(vs, 1, n - 1))
           h == vs[n]
       IN rest \o (IF h # <<>> /\ HasComma(h) THEN LongParts(PartsOf(h), n, 1)
                   ELSE IF Len(h) >= 3 THEN <<Candidate(h, 1, n - 1, 0)>> ELSE <<>>)

\* candidate_vs of get_valid_cover_url
candidate_vs(vs) == SortByPriority(SinglesFrom(vs, 1) \o PartsFrom(vs, 1))

\* content.startswith(prefix)
StartsWith(content, prefix) ==
  Len(content) >= Len(prefix) /\ SubSeq(content, 1, Len(prefix)) = prefix

JpegMagic == <<255, 216>>
PngMagic == <<137, 80, 78, 71>>

\* Fault model: the size test of the cover with >= in place of >.
DownloadCoverAtThreshold(r) ==
  /\ r.status = "200"
  /\ r.size >= MIN_FILE_SIZE
  /\ StartsWith(r.head, JpegMagic) \/ StartsWith(r.head, PngMagic)

\* CoverManager.download_cover on the response r: TRUE when it returns the
\* content, FALSE when it returns None (an exception included).
download_cover(r) ==
  IF r.status = "error" THEN FALSE
  ELSE IF r.status = "200"
    THEN IF r.size > MIN_FILE_SIZE
           THEN StartsWith(r.head, JpegMagic) \/ StartsWith(r.head, PngMagic)
           ELSE FALSE
    ELSE FALSE

\* ------------------------------------------------------------------ catalog
\* Raw catalog entries (song_data).  wellformed = FALSE stands for an entry
\* on which extract_song_info raises (e.g. 'singer': [None] or 'pay': None).
\* album_mid is song_data['album']['mid'], vs is song_data['vs'].
Catalog ==
  { [mid |-> "m1", singer |-> <<"X">>, title |-> <<"Y">>,           pay_play |-> 0, wellformed |-> TRUE,
     album_mid |-> <<>>, vs |-> <<>>],
    [mid |-> "m2", singer |-> <<"X">>, title |-> <<"A", "/", "B">>, pay_play |-> 1, wellformed |-> TRUE,
     album_mid |-> <<"a", "b", "c">>, vs |-> <<>>],
    [mid |-> "m3", singer |-> <<"X">>, title |-> <<"A", ":", "B">>, pay_play |-> 0, wellformed |-> TRUE,
     album_mid |-> <<"a", "b", "c">>, vs |-> << <<"a", "b", "d">>, <<"a", "b">> >>],
    [mid |-> "m4", singer |-> <<"X">>, title |-> <<"Z">>,           pay_play |-> 0, wellformed |-> FALSE,
     album_mid |-> <<>>, vs |-> <<>>] }

NoSong ==
  [mid |-> "", singer |-> <<>>, title |-> <<>>, pay_play |-> 0, wellformed |-> TRUE,
   album_mid |-> <<>>, vs |-> <<>>]

\* The cover URLs get_valid_cover_url can probe for a track, in probe order:
\* the album URL when there is an album mid, then one URL per vs candidate.
CoverCandidates(s) ==
  (IF s.album_mid # <<>> THEN 1 ELSE 0) + Len(candidate_vs(s.vs))

\* The numbers of probes the resolver can make for a track: it probes its
\* candidates in order and stops at the first valid cover.
ProbeCounts(s) == IF CoverCandidates(s) = 0 THEN {0} ELSE 1..CoverCandidates(s)

\* f"{song_info.singer} - {song_info.name}", sanitized
SafeName(s) == sanitize_filename(s.singer \o <<" ", "-", " ">> \o s.title)

\* folder / f"{safe_filename}{file_type.e}"
FilePath(s, tier) == <<SafeName(s), Ext(tier)>>

Paths ==
  {FilePath(s, tier) : s \in {c \in Catalog : c.wellformed}, tier \in {"FLAC", "MP3_320"}}

\* ---------------------------------------------------------------- the state
VARIABLES
  variant,              \* "song" (song.py) or "songlist" (songlist.py)
  credential,           \* downloader.credential is set
  prefer_flac,          \* song.py: downloader.prefer_flac
  quality_level,        \* songlist.py: downloader.quality_level
  disk,                 \* the download folder: path -> file
  task,                 \* the download coroutines, by position in the song list
  past,                 \* single-track runs: the finished earlier calls
  successful_downloads, \* DownloadLogger: number of success entries
  failed_downloads,     \* DownloadLogger: number of failure entries
  batch,                \* download_songlist: its locals and position
  songs,                \* download_songlist: the song list it was given
  bodies,               \* the outside world: body sizes the HTTP server answers with
  cover,                \* a metadata write's cover step: the resolver and its caller
  san,                  \* a call of sanitize_filename: its argument and results
  main,                 \* main(): the program run, its position and its coroutines
  net,                  \* NetworkManager: self.session and the sessions ever made
  meta,                 \* a metadata write: the tags in memory and its inputs
  cm,                   \* CredentialManager of a downloader: file, flags, calls
  tool,                 \* the credential tools: QR login, file, what was printed
  ui                    \* _download_all_songlists: its loop and totals

vars == <<variant, credential, prefer_flac, quality_level, disk, task, past,
          successful_downloads, failed_downloads, batch, songs, bodies,
                 cover, san, main, net, meta, cm, tool, ui>>

Tasks == 1..MaxSongs

NoFile == [st |-> "absent", mid |-> "", size |-> 0, tags |-> ""]
\* A file that was in the folder before the program ran.
OldFile == [st |-> "full", mid |-> "old", size |-> 0, tags |-> ""]

\* Path.exists(): true of a complete and of a partly written file
Exists(f) == f.st # "absent"

\* No response received yet.
NoResponse == [status |-> "", size |-> 0, head |-> <<>>]

\* The cover step before it is called.
IdleCover ==
  [pc |-> "idle", container |-> "", album_mid |-> <<>>, vs |-> <<>>, size |-> 0,
   good |-> {}, resolver |-> "", stage |-> "", k |-> 0, target |-> None,
   cand |-> [value |-> <<>>, priority |-> 0, i |-> 0, j |-> 0], probes |-> <<>>,
   last |-> NoResponse, accepted |-> FALSE, result |-> None, fetches |-> 0,
   picture |-> None, why |-> "", prior |-> {}, pics |-> {}]

\* sanitize_filename before it is called.
IdleSan == [pc |-> "idle", arg |-> <<>>, once |-> <<>>, twice |-> <<>>]

\* A coroutine of the run that uses the network, before it is started.
IdleCo == [pc |-> "idle", session |-> 0, reqs |-> 0]

MaxWorkers == 2     \* coroutines of one run that use the network at the same time
MaxRounds == 2      \* downloads asked for at the prompt in one run
MaxRequests == 2    \* requests of one coroutine: the audio fetch, the cover probes

Workers == 1..MaxWorkers

\* main() before it is called.
IdleMain ==
  [pc |-> "idle", how |-> "", inits |-> 0, rounds |-> 0, closes |-> 0,
   co |-> [w \in Workers |-> IdleCo]]

\* NetworkManager.__init__: self.session = None (0); no session was ever made.
IdleNet == [session |-> 0, created |-> 0, open |-> {}]

\* A metadata write before it is called.
IdleMeta ==
  [pc |-> "idle", container |-> "", prior |-> {}, frames |-> {},
   lyrics |-> [present |-> FALSE, lyric |-> "", trans |-> ""]]

\* CredentialManager.__init__ of a downloader: the three flags are False.
\* file is the credential file ("missing", "corrupt", "valid"); result,
\* checked, refresh, wrote and api describe the call in progress or the last one.
IdleCm ==
  [pc |-> "idle", file |-> "missing", credential_loaded |-> FALSE,
   credential_refreshed |-> FALSE, loaded_from_api |-> FALSE, calls |-> 0,
   result |-> "none", checked |-> "", refresh |-> "", wrote |-> FALSE, api |-> 0,
   answer |-> ""]

\* No credential: None in memory, nothing readable in the credential file.
NoCred == [id |-> 0, len |-> 0]

\* The credential file qqmusic_cred.pkl: absent, unreadable by pickle.load,
\* or the pickle of a credential.
AbsentFile == [state |-> "absent", cred |-> NoCred]

\* The credential tools before a login. prog is the program ("signin" for
\* signin.py, "credential" for credential.py), file the credential file,
\* mem the manager's self.credential, file0 and mem0 their values when
\* qr_login was called, event the last QR status, polls the number of status
\* checks, result what qr_login did, qr_image whether the saved QR image
\* exists, printed the (field, text) pairs printed so far.
IdleTool ==
  [pc |-> "idle", prog |-> "signin", file |-> AbsentFile, mem |-> NoCred,
   file0 |-> AbsentFile, mem0 |-> NoCred, event |-> "", polls |-> 0,
   result |-> "", qr_image |-> FALSE, printed |-> {}]

MaxLists == 2
MaxTracks == 2

\* The interactive interface before a playlist is chosen. has_cred and musicid
\* are the downloader's credential, user_id the text typed for the user,
\* lists the user's playlists, i the playlist at hand, requests the playlists
\* whose tracks were requested from the service, got what
\* get_songlist_details returned, skipped the playlists the download-all loop
\* passed over, added what each playlist added to the totals.
IdleUi ==
  [pc |-> "idle", has_cred |-> FALSE, musicid |-> 0, user_id |-> <<>>,
   lists |-> <<>>, i |-> 0, requests |-> {}, skipped |-> {},
   got |-> [k \in 1..MaxLists |-> ""],
   added |-> [k \in 1..MaxLists |-> <<0, 0>>],
   total_success |-> 0, total_failed |-> 0]

\* No metadata write, credential load, login or download-all flow is running.
ToolsIdle == meta = IdleMeta /\ cm = IdleCm /\ tool = IdleTool /\ ui = IdleUi

IdleTask ==
  [pc |-> "idle", song |-> NoSong, ti |-> 0, payload |-> 0,
   result |-> "none", rtier |-> 0, why |-> "", ev |-> <<>>, exist0 |-> {}]

Strategy ==
  IF variant = "song" THEN SingleStrategy(prefer_flac) ELSE ListStrategy(quality_level)

\* A traced request: its answer, the tier it was made for, the body size of a
\* 200 answer.
Event(kind, i, n) == [kind |-> kind, tier |-> i, size |-> n]


\* The requests of a call, the tier it ended on and its locals at the end are
\* traced in the single-track runs; a batch keeps the outcome of a download.
Traced == batch.pc = "idle"

RecSize(tk, kind, n) ==
  IF Traced THEN [tk EXCEPT !.ev = Append(@, Event(kind, tk.ti, n))] ELSE tk

Rec(tk, kind) == RecSize(tk, kind, 0)

\* ------------------------------------------- one download: pure transitions
Ended(tk) ==
  IF Traced THEN tk
  ELSE [IdleTask EXCEPT !.pc = tk.pc, !.song = tk.song, !.result = tk.result, !.why = tk.why]

\* `return True/False` of the download coroutine with its outcome.
Return(tk, res, i, why) ==
  Ended([tk EXCEPT !.pc = "done", !.result = res, !.rtier = i, !.why = why])

\* An exception leaves the coroutine.
Raise(tk) == Ended([tk EXCEPT !.pc = "raised", !.result = "raised", !.why = "exception"])

\* The `except Exception` clause around the tier loop.  have_info: song_info
\* was bound before the exception ('song_info' in locals()).  song.py logs and
\* returns False; songlist.py records the failure, for which it extracts the
\* song info again when it has none, and that raises again on the same entry.
ExceptHandler(tk, have_info) ==
  IF variant = "song" \/ have_info
    THEN Return(tk, "failed", 0, "exception")
    ELSE Raise(tk)

\* Fault model: a tier loop without the exists-check.
TierLoopNoCheck(tk, i, d) ==
  IF i > Len(Strategy)
    THEN Return(tk, "failed", 0, "exhausted")
    ELSE [tk EXCEPT !.pc = "url", !.ti = i]

\* The head of the tier loop at tier i: end of the chain, exists-check, or the
\* request for the stream URL of tier i (an await).
TierLoop(tk, i, d) ==
  IF i > Len(Strategy)
    THEN Return(tk, "failed", 0, "exhausted")
    ELSE IF Exists(d[FilePath(tk.song, Strategy[i])])
      THEN Return(tk, "skipped", i, "")
      ELSE [tk EXCEPT !.pc = "url", !.ti = i]

\* Fault model: the credential guard in front of both downloaders.
RequiresCredentialAlways == TRUE

\* songlist.py download_single_song starts with _check_credential.
RequiresCredential == variant = "songlist"

\* Fault model: the size test with >= in place of >.
PayloadAcceptedAtThreshold(n) == n >= MIN_FILE_SIZE

\* len(content) > Config.MIN_FILE_SIZE
PayloadAccepted(n) == n > MIN_FILE_SIZE

\* DownloadLogger.log_failure is called by songlist.py when the chain is
\* exhausted and in its except clause.
LogsFailure(new) ==
  variant = "songlist" /\ new.pc = "done" /\ new.result = "failed"
    /\ new.why \in {"exhausted", "exception"}

\* The bookkeeping every step of a coroutine shares.
Step(t, new, d) ==
  /\ task' = [task EXCEPT ![t] = new]
  /\ disk' = d
  /\ failed_downloads' = failed_downloads + (IF LogsFailure(new) THEN 1 ELSE 0)
  /\ successful_downloads' = successful_downloads
       + (IF variant = "songlist" /\ new.result = "success" THEN 1 ELSE 0)
  /\ UNCHANGED <<variant, credential, prefer_flac, quality_level, past, batch, songs, bodies,
                 cover, san, main, net, meta, cm, tool, ui>>

TierPath(tk) == FilePath(tk.song, Strategy[tk.ti])

\* ------------------------------------------------ one download: the actions
\* From the call to the first await: credential check (songlist.py),
\* extract_song_info, sanitize_filename, the tier loop up to get_song_urls.
Begin(t) ==
  /\ task[t].pc = "start"
  /\ LET tk == task[t]
         seen == IF Traced
                   THEN [tk EXCEPT !.exist0 =
                           {i \in 1..Len(Strategy) : Exists(disk[FilePath(tk.song, Strategy[i])])}]
                   ELSE tk
         new == IF RequiresCredential /\ ~credential
                  THEN Return(tk, "failed", 0, "nocred")
                  ELSE IF ~tk.song.wellformed
                    THEN ExceptHandler(tk, FALSE)
                    ELSE TierLoop(seen, 1, disk)
     IN Step(t, new, disk)

\* Fault model: an absent URL ends the download instead of the tier.
UrlAnswerHardMiss(tk, r) ==
  CASE r = "none"  -> Return(Rec(tk, "url_none"), "failed", 0, "exception")
    [] r = "url"   -> [Rec(tk, "url_ok") EXCEPT !.pc = "get"]
    [] r = "error" -> ExceptHandler(Rec(tk, "url_err"), TRUE)

\* get_song_urls answers: no URL for the mid, a URL, or it raises.
UrlAnswer(tk, r) ==
  CASE r = "none"  -> TierLoop(Rec(tk, "url_none"), tk.ti + 1, disk)
    [] r = "url"   -> [Rec(tk, "url_ok") EXCEPT !.pc = "get"]
    [] r = "error" -> ExceptHandler(Rec(tk, "url_err"), TRUE)

UrlResponse(t) ==
  /\ task[t].pc = "url"
  /\ \E r \in {"none", "url", "error"} : Step(t, UrlAnswer(task[t], r), disk)

\* session.get(url) and response.read(): a transport error or timeout (raised
\* as DownloadError by get_session), a status other than 200, or 200 with a body.
GetAnswers ==
  {[status |-> "error", size |-> 0], [status |-> "non200", size |-> 0]}
    \cup {[status |-> "200", size |-> n] : n \in bodies}

GetAnswer(tk, r) ==
  CASE r.status = "error"  -> ExceptHandler(Rec(tk, "get_err"), TRUE)
    [] r.status = "non200" -> TierLoop(Rec(tk, "get_non200"), tk.ti + 1, disk)
    [] r.status = "200"    ->
         IF PayloadAccepted(r.size)
           THEN [RecSize(tk, "get_big", r.size) EXCEPT !.pc = "open", !.payload = r.size]
           ELSE TierLoop(RecSize(tk, "get_small", r.size), tk.ti + 1, disk)

GetResponse(t) ==
  /\ task[t].pc = "get"
  /\ \E r \in GetAnswers : Step(t, GetAnswer(task[t], r), disk)

\* _save_file, aiofiles.open(file_path, 'wb'): creates or truncates the file,
\* or raises and touches nothing.
OpenDone(t) ==
  /\ task[t].pc = "open"
  /\ LET tk == task[t] IN
     \E ok \in BOOLEAN :
       IF ok
         THEN Step(t, [Rec(tk, "open_ok") EXCEPT !.pc = "write"],
                   [disk EXCEPT ![TierPath(tk)] =
                      [st |-> "partial", mid |-> tk.song.mid, size |-> 0, tags |-> ""]])
         ELSE Step(t, ExceptHandler(Rec(tk, "open_err"), TRUE), disk)

\* What f.write(content) leaves at the path: the whole payload from offset 0
\* of this task's handle.  Bytes another handle wrote beyond the payload's
\* length since this task's open stay in the file.
Written(f, tk) ==
  IF f.st = "full" /\ f.mid # tk.song.mid /\ f.size > tk.payload
    THEN [st |-> "full", mid |-> "mixed", size |-> f.size, tags |-> ""]
    ELSE [st |-> "full", mid |-> tk.song.mid, size |-> tk.payload, tags |-> ""]

\* _save_file, f.write(content) and the close: the payload is on disk, or the
\* write raises and the file stays as the open left it.
WriteDone(t) ==
  /\ task[t].pc = "write"
  /\ LET tk == task[t] IN
     \E ok \in BOOLEAN :
       IF ok
         THEN Step(t, [Rec(tk, "write_ok") EXCEPT !.pc = "lyrics"],
                   [disk EXCEPT ![TierPath(tk)] = Written(@, tk)])
         ELSE Step(t, ExceptHandler(Rec(tk, "write_err"), TRUE), disk)

\* _add_metadata, _get_lyrics: get_lyric answers, or raises and None is used.
LyricsDone(t) ==
  /\ task[t].pc = "lyrics"
  /\ \E got \in BOOLEAN :
       Step(t, [Rec(task[t], IF got THEN "lyrics_ok" ELSE "lyrics_none")
                  EXCEPT !.pc = "tag"], disk)

\* Fault model: the tier loop goes on after a tier has succeeded.
AfterMetadataNextTier(tk, ok) ==
  TierLoop(Rec(tk, IF ok THEN "tag_ok" ELSE "tag_fail"), tk.ti + 1, disk)

\* Fault model: a failure of the tag write leaves _add_metadata as an exception.
AfterMetadataPropagates(tk, ok) ==
  IF ok THEN Return(Rec(tk, "tag_ok"), "success", tk.ti, "")
        ELSE ExceptHandler(Rec(tk, "tag_fail"), TRUE)

\* The end of _download_with_quality after the metadata step: a MetadataError
\* (or any exception of the tag write) is caught in _add_metadata; the
\* download is logged as a success and True is returned.
AfterMetadata(tk, ok) ==
  Return(Rec(tk, IF ok THEN "tag_ok" ELSE "tag_fail"), "success", tk.ti, "")

\* add_metadata_to_flac / add_metadata_to_mp3: the cover resolver probes its
\* candidates, then the tags of this track are saved into the file at the
\* path, or the tag write fails and saves nothing.
TagDone(t) ==
  /\ task[t].pc = "tag"
  /\ LET tk == task[t] IN
     \E ok \in BOOLEAN, probes \in ProbeCounts(tk.song) :
       Step(t, AfterMetadata(RecSize(tk, "cover", probes), ok),
            IF ok THEN [disk EXCEPT ![TierPath(tk)].tags = tk.song.mid] ELSE disk)

TaskStep(t) ==
  \/ Begin(t)
  \/ UrlResponse(t)
  \/ GetResponse(t)
  \/ OpenDone(t)
  \/ WriteDone(t)
  \/ LyricsDone(t)
  \/ TagDone(t)

\* --------------------------------------------- single-track runs (SpecOne)
\* Files found in the folder at start: at most MaxOld of them.
MaxOld == 2
\* The quality levels the runs are started with (the three- and two-tier chains).
Levels == {3, 4}

InitDisks ==
  { [p \in Paths |-> IF p \in S THEN OldFile ELSE NoFile] :
      S \in {T \in SUBSET Paths : Cardinality(T) <= MaxOld} }

InitOne ==
  /\ variant \in {"song", "songlist"}
  /\ credential \in BOOLEAN
  /\ prefer_flac \in (IF variant = "song" THEN BOOLEAN ELSE {FALSE})
  /\ quality_level \in (IF variant = "songlist" THEN Levels ELSE {3})
  /\ disk \in InitDisks
  /\ task = [t \in Tasks |-> IdleTask]
  /\ past = <<>>
  /\ successful_downloads = 0
  /\ failed_downloads = 0
  /\ batch = [pc |-> "idle", i |-> 0, n |-> 0, success_count |-> 0, failed_count |-> 0,
              progress |-> <<>>, sleeps |-> 0]
  /\ songs = <<>>
  /\ bodies = Sizes
  /\ cover = IdleCover
  /\ san = IdleSan
  /\ main = IdleMain
  /\ net = IdleNet
  /\ ToolsIdle

\* The caller invokes the download on a catalog entry.
Invoke ==
  /\ task[1].pc = "idle"
  /\ \E s \in Catalog :
       task' = [task EXCEPT ![1] = [IdleTask EXCEPT !.pc = "start", !.song = s]]
  /\ UNCHANGED <<variant, credential, prefer_flac, quality_level, disk, past,
                 successful_downloads, failed_downloads, batch, songs, bodies,
                 cover, san, main, net, meta, cm, tool, ui>>

\* The answers to session.get among the traced requests.
FetchKinds == {"get_err", "get_non200", "get_small", "get_big"}

\* Number of HTTP fetches among the requests e.
Fetches(e) == Cardinality({k \in 1..Len(e) : e[k].kind \in FetchKinds})

\* What is kept of a finished call: its outcome, the number of its fetches,
\* and the file at the path of the tier it ended on.
Finished(tk) ==
  [result |-> tk.result, rtier |-> tk.rtier, why |-> tk.why, fetches |-> Fetches(tk.ev),
   file |-> IF tk.rtier > 0 THEN disk[FilePath(tk.song, Strategy[tk.rtier])] ELSE NoFile]

\* The caller invokes the download again with the same arguments.
Reinvoke ==
  /\ task[1].pc \in {"done", "raised"}
  /\ past = <<>>
  /\ past' = Append(past, Finished(task[1]))
  /\ task' = [task EXCEPT ![1] = [IdleTask EXCEPT !.pc = "start", !.song = task[1].song]]
  /\ UNCHANGED <<variant, credential, prefer_flac, quality_level, disk,
                 successful_downloads, failed_downloads, batch, songs, bodies,
                 cover, san, main, net, meta, cm, tool, ui>>

NextOne == Invoke \/ Reinvoke \/ TaskStep(1)

SpecOne == InitOne /\ [][NextOne]_vars


\* ------------------------------------------------ properties: one download
UrlKinds == {"url_none", "url_ok", "url_err"}
HasEv(e, kind, i) == \E k \in 1..Len(e) : e[k].kind = kind /\ e[k].tier = i

\* After the k-th request of tk, made for tier i, the download went on with
\* tier i+1: its URL request, the skip at its path, or the end of the chain.
Continues(tk, k) ==
  LET i == tk.ev[k].tier IN
  IF k < Len(tk.ev)
    THEN tk.ev[k + 1].tier = i + 1 /\ tk.ev[k + 1].kind \in UrlKinds
    ELSE \/ tk.pc = "url" /\ tk.ti = i + 1
         \/ tk.pc = "done" /\ tk.result = "skipped" /\ tk.rtier = i + 1
         \/ tk.pc = "done" /\ tk.result = "failed" /\ tk.why = "exhausted"
              /\ i = Len(Strategy)

C2_FirstExistingPathWins ==
  LET tk == task[1] IN
  tk.exist0 # {} =>
    /\ tk.ev = <<>>
    /\ tk.pc = "done" => tk.result = "skipped"

\* C3: with tier 1 answering no URL and tier 2 a fetch above the threshold,
\* no request is made for tier 3, only the file at tier 2's path is written,
\* and once the payload is written the call ends in success at tier 2 (it
\* ends before that only by an error of the open or the write).
C3_FallbackStopsAtFirstSuccess ==
  LET tk == task[1] IN
  (Len(Strategy) >= 3 /\ HasEv(tk.ev, "url_none", 1) /\ HasEv(tk.ev, "get_big", 2)) =>
    /\ \A k \in 1..Len(tk.ev) : tk.ev[k].tier <= 2
    /\ \A p \in Paths : disk[p].mid = tk.song.mid => p = FilePath(tk.song, Strategy[2])
    /\ tk.pc = "done" =>
         \/ /\ tk.result = "success"
            /\ tk.rtier = 2
            /\ HasEv(tk.ev, "write_ok", 2)
            /\ disk[FilePath(tk.song, Strategy[2])].st = "full"
            /\ disk[FilePath(tk.song, Strategy[2])].size = tk.payload
         \/ /\ tk.result = "failed"
            /\ tk.why = "exception"
            /\ HasEv(tk.ev, "open_err", 2) \/ HasEv(tk.ev, "write_err", 2)
    /\ HasEv(tk.ev, "write_ok", 2) =>
         tk.pc \in {"lyrics", "tag"} \/ (tk.pc = "done" /\ tk.result = "success")

C3_Witness ==
  LET tk == task[1] IN
  /\ Len(Strategy) >= 3
  /\ HasEv(tk.ev, "url_none", 1)
  /\ HasEv(tk.ev, "get_big", 2)
  /\ tk.pc = "done"
  /\ tk.result = "success"
  /\ tk.rtier = 2
  /\ disk[FilePath(tk.song, Strategy[1])].st = "absent"

\* C4: a 200 answer with a body of at most MIN_FILE_SIZE bytes is never
\* written and the download goes on with the next tier; every payload handed
\* to the file write, and every file the downloader wrote completely, is
\* larger than MIN_FILE_SIZE.
C4_UndersizedRejected ==
  LET tk == task[1] IN
  /\ \A p \in Paths :
       (disk[p].st = "full" /\ disk[p].mid # "old") => disk[p].size > MIN_FILE_SIZE
  /\ tk.pc \in {"open", "write"} => tk.payload > MIN_FILE_SIZE
  /\ \A k \in 1..Len(tk.ev) :
       /\ tk.ev[k].kind = "get_big" => tk.ev[k].size > MIN_FILE_SIZE
       /\ tk.ev[k].kind = "get_small" =>
            /\ tk.ev[k].size <= MIN_FILE_SIZE
            /\ ~HasEv(tk.ev, "open_ok", tk.ev[k].tier)
            /\ ~HasEv(tk.ev, "open_err", tk.ev[k].tier)
            /\ Continues(tk, k)

\* A body of exactly MIN_FILE_SIZE bytes was turned down at tier 1 and the
\* download succeeded at the next tier.
C4_Witness ==
  LET tk == task[1] IN
  /\ tk.ev # <<>>
  /\ \E k \in 1..Len(tk.ev) :
       tk.ev[k] = Event("get_small", 1, MIN_FILE_SIZE)
  /\ tk.pc = "done"
  /\ tk.result = "success"
  /\ tk.rtier = 2
  /\ disk[FilePath(tk.song, Strategy[2])].size = MIN_FILE_SIZE + 1

\* C5: when URL resolution yields no URL for tier i the download goes on
\* with tier i+1, and it returns failed for the exhausted chain only when no
\* tier wrote a file.
C5_AbsentUrlIsSoftMiss ==
  LET tk == task[1] IN
  /\ \A k \in 1..Len(tk.ev) : tk.ev[k].kind = "url_none" => Continues(tk, k)
  /\ (tk.pc = "done" /\ tk.result = "failed" /\ tk.why = "exhausted") =>
       /\ \A k \in 1..Len(tk.ev) : tk.ev[k].kind \notin {"open_ok", "write_ok"}
       /\ \E k \in 1..Len(tk.ev) : tk.ev[k].tier = Len(Strategy)

\* Every tier but the last answered no URL and the last tier delivered.
C5_Witness ==
  LET tk == task[1] IN
  /\ tk.pc = "done"
  /\ tk.result = "success"
  /\ tk.rtier = Len(Strategy)
  /\ \A i \in 1..(Len(Strategy) - 1) : HasEv(tk.ev, "url_none", i)

\* C6 as stated: a transport error or timeout of URL resolution or of the
\* fetch at a tier that is not the last is a miss of that tier, after which
\* the call goes on with the next tier.
C6_NetworkErrorIsSoftMiss ==
  LET tk == task[1] IN
  \A k \in 1..Len(tk.ev) :
    (tk.ev[k].kind \in {"url_err", "get_err"} /\ tk.ev[k].tier < Len(Strategy)) =>
      Continues(tk, k)

C8_MetadataFailureIsolated ==
  LET tk == task[1] IN
  \A k \in 1..Len(tk.ev) :
    LET T == tk.ev[k].tier
        f == disk[FilePath(tk.song, Strategy[T])]
    IN /\ tk.ev[k].kind \in {"write_ok", "lyrics_ok", "lyrics_none", "tag_ok", "tag_fail"} =>
            /\ f.st = "full" /\ f.mid = tk.song.mid /\ f.size = tk.payload
            /\ \A j \in k..Len(tk.ev) : tk.ev[j].tier = T
            /\ tk.pc \in {"lyrics", "tag"} \/ (tk.pc = "done" /\ tk.result = "success" /\ tk.rtier = T)
       /\ tk.ev[k].kind \in {"tag_ok", "tag_fail"} =>
            /\ k = Len(tk.ev)
            /\ tk.pc = "done"
            /\ f.tags = (IF tk.ev[k].kind = "tag_ok" THEN tk.song.mid ELSE "")

\* No lyrics and a failed tag write at the first tier; the call succeeded.
C8_Witness ==
  LET tk == task[1] IN
  /\ HasEv(tk.ev, "lyrics_none", 1)
  /\ HasEv(tk.ev, "tag_fail", 1)
  /\ tk.pc = "done"
  /\ tk.result = "success"
  /\ tk.rtier = 1
  /\ disk[FilePath(tk.song, Strategy[1])].size > MIN_FILE_SIZE

\* -------------------------------------------- download_songlist (SpecList)
Min(a, b) == IF a < b THEN a ELSE b

\* The positions (1-based) of batch = songs[i:i + Config.BATCH_SIZE]
Window(i, n) == {k \in Tasks : i < k /\ k <= Min(i + BATCH_SIZE, n)}

\* tasks = [self.download_single_song(song, folder) for song in batch] handed
\* to asyncio.gather: one coroutine per song of the window.
Launch(tk, i, n) ==
  [k \in Tasks |-> IF k \in Window(i, n)
                     THEN [IdleTask EXCEPT !.pc = "start", !.song = songs[k]]
                     ELSE tk[k]]

InFlight(k) == task[k].pc \notin {"idle", "done", "raised", "joined"}

\* The song lists of the runs: the first songs of these playlists.
Entry(m) == CHOOSE c \in Catalog : c.mid = m

Playlists ==
  { [k \in 1..5 |-> Entry(<<"m2", "m3", "m1", "m4", "m1">>[k])],
    [k \in 1..5 |-> Entry(<<"m4", "m1", "m2", "m3", "m1">>[k])],
    [k \in 1..5 |-> Entry(<<"m1", "m2", "m1", "m3", "m2">>[k])] }

SongLists == {SubSeq(p, 1, n) : p \in Playlists, n \in 1..MaxSongs}

\* The playlist folder at the start: empty, or holding one earlier download.
ListFolders ==
  { [p \in Paths |-> NoFile],
    [p \in Paths |-> IF p = FilePath(Entry("m1"), "MP3_320") THEN OldFile ELSE NoFile] }

\* The body sizes offered to a batch: at the threshold and above it.
ListSizes == {MIN_FILE_SIZE, MIN_FILE_SIZE + 1, 50000}

InitList ==
  /\ variant = "songlist"
  /\ credential \in BOOLEAN
  /\ prefer_flac = FALSE
  /\ quality_level \in Levels
  /\ disk \in ListFolders
  /\ task = [t \in Tasks |-> IdleTask]
  /\ past = <<>>
  /\ successful_downloads = 0
  /\ failed_downloads = 0
  /\ batch = [pc |-> "idle", i |-> 0, n |-> 0, success_count |-> 0, failed_count |-> 0,
              progress |-> <<>>, sleeps |-> 0]
  /\ songs \in SongLists
  /\ bodies = ListSizes
  /\ cover = IdleCover
  /\ san = IdleSan
  /\ main = IdleMain
  /\ net = IdleNet
  /\ ToolsIdle

\* download_songlist(songlist_info, user_id, songs) up to the first await: the
\* credential check, the counters, the first window.
CallSonglist ==
  /\ batch.pc = "idle"
  /\ IF ~credential
       THEN /\ batch' = [batch EXCEPT !.pc = "returned", !.n = Len(songs)]
            /\ UNCHANGED task
       ELSE /\ batch' = [batch EXCEPT !.pc = "gather", !.n = Len(songs), !.i = 0]
            /\ task' = Launch(task, 0, Len(songs))
  /\ UNCHANGED <<variant, credential, prefer_flac, quality_level, disk, past,
                 successful_downloads, failed_downloads, songs, bodies,
                 cover, san, main, net, meta, cm, tool, ui>>

\* Fault model: the await returns with the first coroutine that has returned.
WindowFinishedAny(i, n) == \E k \in Window(i, n) : task[k].pc = "done"

\* Fault model: a skipped track is not counted as a success.
SuccessesWithoutSkips(i, n) ==
  Cardinality({k \in Window(i, n) : task[k].result = "success"})

\* Fault model: the progress count without the cap at the list length.
TotalDoneUncapped(i, n) == i + BATCH_SIZE

\* Fault model: the pause is taken after the last window as well.
MoreWindowsAlways(i, n) == TRUE

\* The window is awaited as a whole: gather returns when each of its
\* coroutines has returned.
WindowFinished(i, n) == \A k \in Window(i, n) : task[k].pc = "done"

Successes(i, n) ==
  Cardinality({k \in Window(i, n) : task[k].result \in {"success", "skipped"}})

\* total_done = min(i + Config.BATCH_SIZE, len(songs))
TotalDone(i, n) == Min(i + BATCH_SIZE, n)

\* if i + Config.BATCH_SIZE < len(songs): another window follows
MoreWindows(i, n) == i + BATCH_SIZE < n

\* results = await asyncio.gather(*tasks) returns; the counters, the progress
\* line, then the pause before the next window or the summary and the return.
GatherDone ==
  /\ batch.pc = "gather"
  /\ WindowFinished(batch.i, batch.n)
  /\ LET i == batch.i
         n == batch.n
         ok == Successes(i, n)
         counted == [batch EXCEPT
                       !.success_count = @ + ok,
                       !.failed_count = @ + Cardinality(Window(i, n)) - ok,
                       !.progress = Append(@, TotalDone(i, n))]
     IN /\ batch' = IF MoreWindows(i, n)
                      THEN [counted EXCEPT !.pc = "sleep", !.sleeps = @ + 1]
                      ELSE [counted EXCEPT !.pc = "returned"]
        /\ task' = [k \in Tasks |-> IF k \in Window(i, n) /\ task[k].pc = "done"
                                      THEN [IdleTask EXCEPT !.pc = "joined",
                                                            !.result = task[k].result]
                                      ELSE task[k]]
  /\ UNCHANGED <<variant, credential, prefer_flac, quality_level, disk, past,
                 successful_downloads, failed_downloads, songs, bodies,
                 cover, san, main, net, meta, cm, tool, ui>>

\* asyncio.gather without return_exceptions: the first exception of a
\* coroutine of the window is raised out of the await, and out of
\* download_songlist; the other coroutines of the window keep running.
GatherRaise ==
  /\ batch.pc = "gather"
  /\ \E k \in Window(batch.i, batch.n) : task[k].pc = "raised"
  /\ batch' = [batch EXCEPT !.pc = "raised"]
  /\ UNCHANGED <<variant, credential, prefer_flac, quality_level, disk, task, past,
                 successful_downloads, failed_downloads, songs, bodies,
                 cover, san, main, net, meta, cm, tool, ui>>

\* await asyncio.sleep(1) is over: the next turn of the loop, the next window.
SleepDone ==
  /\ batch.pc = "sleep"
  /\ LET i == batch.i + BATCH_SIZE IN
       /\ batch' = [batch EXCEPT !.pc = "gather", !.i = i]
       /\ task' = Launch(task, i, batch.n)
  /\ UNCHANGED <<variant, credential, prefer_flac, quality_level, disk, past,
                 successful_downloads, failed_downloads, songs, bodies,
                 cover, san, main, net, meta, cm, tool, ui>>

NextList ==
  \/ CallSonglist
  \/ GatherDone
  \/ GatherRaise
  \/ SleepDone
  \/ \E t \in Tasks : TaskStep(t)

SpecList == InitList /\ [][NextList]_vars

\* ------------------------------------------------- properties: the batch
\* C9 as stated: no failure of one track, a malformed entry included, ends
\* the batch: download_songlist is never left by an exception, and when it
\* returns with a credential its two counts add up to the length of the list.
C9_BatchNeverAborts ==
  /\ batch.pc # "raised"
  /\ (batch.pc = "returned" /\ credential) =>
       batch.success_count + batch.failed_count = Len(songs)

\* The window (0-based) of the song at position k of the list.
WindowOf(k) == (k - 1) \div BATCH_SIZE

\* C10: at every moment at most BATCH_SIZE downloads are in flight, the
\* started downloads are the songs of the list in order up to the end of the
\* current window, and a download is started only when every download of
\* every earlier window has returned and been collected.
C10_WindowBarrier ==
  /\ Cardinality({k \in Tasks : InFlight(k)}) <= BATCH_SIZE
  /\ \A k \in Tasks :
       task[k].pc # "idle" =>
         /\ k <= Len(songs)
         /\ \A j \in Tasks : WindowOf(j) < WindowOf(k) => task[j].pc = "joined"
  /\ batch.pc \in {"gather", "sleep"} =>
       {k \in Tasks : task[k].pc # "idle"} = 1..Min(batch.i + BATCH_SIZE, batch.n)

\* The first window was full and in flight at once, and a download of the
\* second window is now in flight.
C10_Witness ==
  /\ batch.i = BATCH_SIZE
  /\ batch.progress = <<BATCH_SIZE>>
  /\ InFlight(BATCH_SIZE + 1)
  /\ \A j \in 1..BATCH_SIZE : task[j].pc = "joined"

\* ceil(n / w)
CeilDiv(n, w) == (n + w - 1) \div w

\* The windows download_songlist has collected so far.
WindowsDone == Len(batch.progress)

\* C11: download_songlist pauses once after each collected window that is
\* followed by another window and not after the last one: while it runs the
\* number of pauses is the number of collected windows, each of them short
\* of the end of the list, and when it returns with a credential over n
\* tracks it has paused ceil(n / BATCH_SIZE) - 1 times (0 for n <= BATCH_SIZE).
C11_InterBatchDelay ==
  /\ batch.pc \in {"gather", "sleep", "raised"} =>
       /\ batch.sleeps = WindowsDone
       /\ \A j \in 1..WindowsDone : j * BATCH_SIZE < Len(songs)
  /\ batch.pc = "sleep" => batch.i + BATCH_SIZE < Len(songs)
  /\ (batch.pc = "returned" /\ credential) =>
       /\ batch.sleeps = WindowsDone - 1
       /\ batch.sleeps = CeilDiv(Len(songs), BATCH_SIZE) - 1
       /\ Len(songs) <= BATCH_SIZE => batch.sleeps = 0
  /\ (batch.pc = "returned" /\ ~credential) => batch.sleeps = 0

\* A list of two windows was downloaded with one pause.
C11_Witness ==
  /\ batch.pc = "returned"
  /\ credential
  /\ Len(songs) > BATCH_SIZE
  /\ batch.sleeps = 1
  /\ WindowsDone = 2

\* The collected downloads with an outcome in R.
Collected(R) == {k \in Tasks : task[k].pc = "joined" /\ task[k].result \in R}

\* The number of tracks of the windows collected so far.
Processed == IF batch.pc = "gather" THEN batch.i ELSE Min(batch.i + BATCH_SIZE, batch.n)

\* C12: with a credential, the success count is the number of collected
\* tracks that were skipped or succeeded and the failure count the number
\* that failed; after every window the two add up to the number of tracks
\* processed so far, to n when download_songlist returns, and neither count
\* ever decreases.
C12_BatchAccounting ==
  /\ [](credential =>
          /\ batch.success_count = Cardinality(Collected({"success", "skipped"}))
          /\ batch.failed_count = Cardinality(Collected({"failed"}))
          /\ batch.pc \in {"gather", "sleep", "returned"} =>
               batch.success_count + batch.failed_count = Processed
          /\ batch.pc = "returned" =>
               batch.success_count + batch.failed_count = Len(songs))
  /\ [][/\ batch'.success_count >= batch.success_count
        /\ batch'.failed_count >= batch.failed_count]_vars

\* A returned batch of three tracks with a skipped, a downloaded and a
\* failed track among them.
C12_Witness ==
  /\ batch.pc = "returned"
  /\ credential
  /\ Len(songs) = 3
  /\ batch.failed_count = 1
  /\ batch.success_count = 2
  /\ Cardinality(Collected({"skipped"})) = 1

\* C13: progress is reported once per collected window with the cumulative
\* number of tracks done, capped at the list length: the j-th report is
\* min(j * BATCH_SIZE, n), and when download_songlist returns with a
\* credential there were ceil(n / BATCH_SIZE) reports, the last of them n.
C13_ProgressPerWindow ==
  /\ \A j \in 1..WindowsDone : batch.progress[j] = Min(j * BATCH_SIZE, Len(songs))
  /\ batch.pc = "gather" => WindowsDone * BATCH_SIZE = batch.i
  /\ batch.pc = "sleep" => WindowsDone * BATCH_SIZE = batch.i + BATCH_SIZE
  /\ (batch.pc = "returned" /\ credential) =>
       /\ WindowsDone = CeilDiv(Len(songs), BATCH_SIZE)
       /\ batch.progress[WindowsDone] = Len(songs)

\* A list whose last window is not full: the last report is the list
\* length, below the next multiple of the window size.
C13_Witness ==
  /\ batch.pc = "returned"
  /\ WindowsDone = 2
  /\ batch.progress[1] = BATCH_SIZE
  /\ batch.progress[2] = Len(songs)
  /\ Len(songs) < 2 * BATCH_SIZE


\* ----------------------------------------- sanitize_filename (SpecSanitize)
\* Longest argument drawn from the alphabet.
MaxLen == 3

SanAlphabet == illegal_chars \cup {"A", "_", " ", "\t"}

\* The example of the specification: 'A/B:C*D'
SanExample == <<"A", "/", "B", ":", "C", "*", "D">>

SanInputs == UNION {[1..k -> SanAlphabet] : k \in 0..MaxLen} \cup {SanExample}

\* The variables of the programs' downloads stay as constructed.
NoDownload ==
  /\ variant = "song"
  /\ credential = FALSE
  /\ prefer_flac = FALSE
  /\ quality_level = 3
  /\ disk = [p \in Paths |-> NoFile]
  /\ task = [t \in Tasks |-> IdleTask]
  /\ past = <<>>
  /\ successful_downloads = 0
  /\ failed_downloads = 0
  /\ batch = [pc |-> "idle", i |-> 0, n |-> 0, success_count |-> 0, failed_count |-> 0,
              progress |-> <<>>, sleeps |-> 0]
  /\ songs = <<>>
  /\ bodies = Sizes

InitSanitize ==
  /\ NoDownload
  /\ main = IdleMain
  /\ net = IdleNet
  /\ ToolsIdle
  /\ cover = IdleCover
  /\ san \in {[IdleSan EXCEPT !.arg = x] : x \in SanInputs}

\* FileManager.sanitize_filename(filename)
Sanitize ==
  /\ san.pc = "idle"
  /\ san' = [san EXCEPT !.pc = "once", !.once = sanitize_filename(san.arg)]
  /\ UNCHANGED <<variant, credential, prefer_flac, quality_level, disk, task, past,
                 successful_downloads, failed_downloads, batch, songs, bodies, cover,
                 main, net, meta, cm, tool, ui>>

\* sanitize_filename applied to its own result
SanitizeAgain ==
  /\ san.pc = "once"
  /\ san' = [san EXCEPT !.pc = "twice", !.twice = sanitize_filename(san.once)]
  /\ UNCHANGED <<variant, credential, prefer_flac, quality_level, disk, task, past,
                 successful_downloads, failed_downloads, batch, songs, bodies, cover,
                 main, net, meta, cm, tool, ui>>

NextSanitize == Sanitize \/ SanitizeAgain

SpecSanitize == InitSanitize /\ [][NextSanitize]_vars

\* The nine characters of the sanitizer's contract.
NineChars == {"<", ">", ":", "\"", "/", "\\", "|", "?", "*"}

\* y is x[a+1 .. a+Len(y)] with every one of the nine characters replaced by
\* one '_' and nothing else changed.
ReplacedSlice(x, y, a) ==
  /\ a + Len(y) <= Len(x)
  /\ \A k \in 1..Len(y) : y[k] = (IF x[a + k] \in NineChars THEN "_" ELSE x[a + k])

\* C19: the result of sanitize_filename is its argument with each of the
\* nine characters replaced by one '_' and with the leading and trailing
\* whitespace, and nothing else, cut off; it holds none of the nine
\* characters, and sanitize('A/B:C*D') = 'A_B_C_D'.
C19_SanitizerResult ==
  san.pc \in {"once", "twice"} =>
    LET x == san.arg
        y == san.once
    IN /\ \A k \in 1..Len(y) : y[k] \notin NineChars
       /\ y # <<>> => y[1] \notin Whitespace /\ y[Len(y)] \notin Whitespace
       /\ \E a \in 0..Len(x) :
            /\ ReplacedSlice(x, y, a)
            /\ \A k \in 1..Len(x) : (k <= a \/ k > a + Len(y)) => x[k] \in Whitespace
       /\ x = SanExample => y = <<"A", "_", "B", "_", "C", "_", "D">>

C19_Witness ==
  /\ san.pc = "once"
  /\ san.arg = SanExample
  /\ san.once = <<"A", "_", "B", "_", "C", "_", "D">>

\* C20: sanitize_filename applied to its own result returns that result.
C20_SanitizerIdempotent ==
  san.pc = "twice" => san.twice = san.once

\* An argument that the first application changed at both ends and inside.
C20_Witness ==
  /\ san.pc = "twice"
  /\ san.arg = <<" ", "/", "\t">>
  /\ san.once = <<"_">>
  /\ san.twice = <<"_">>

\* --------------------------------------- cover step of a metadata write
\* Longest vs list of a track.
MaxVs == 2

\* The vs hints of the tracks: 'abc', 'ab', 'abd,cde', 'ab, xyz' and ''.
Hints ==
  { <<"a", "b", "c">>,
    <<"a", "b">>,
    <<"a", "b", "d", ",", "c", "d", "e">>,
    <<"a", "b", ",", " ", "x", "y", "z">>,
    <<>> }

VsLists == UNION {[1..k -> Hints] : k \in 0..MaxVs}

AlbumMids == {<<>>, <<"m">>}

\* The sizes the resolver is called with: Config.COVER_SIZE, another size of
\* the list, and a size outside it.
SizeArgs == {COVER_SIZE, 150, 640}

Heads ==
  { <<255, 216, 255, 224>>, <<137, 80, 78, 71>>, <<71, 73, 70, 56>>,
    <<255, 217, 255, 224>>, <<137, 80, 78, 70>> }

\* What a request for a cover can end in: an exception of the transport, a
\* status other than 200, or 200 with a body (its length and first bytes).
Responses ==
  { [status |-> "error", size |-> 0, head |-> <<>>],
    [status |-> "404", size |-> 0, head |-> <<>>] }
    \cup {[status |-> "200", size |-> n, head |-> h] :
            n \in {MIN_FILE_SIZE, MIN_FILE_SIZE + 1}, h \in Heads}

\* The server and the path of a cover URL.
Key(u) == <<u.host, u.id>>

\* The cover URLs the resolver can build for a track.
UrlsOf(mid, vs) ==
  (IF mid # <<>> THEN {<<"album", mid>>} ELSE {})
    \cup {<<"vs", candidate_vs(vs)[k].value>> : k \in 1..Len(candidate_vs(vs))}

\* The answers to a probe of u while the URLs in good serve a cover.
ResponsesFor(u, good) == {r \in Responses : download_cover(r) <=> Key(u) \in good}

InitCover ==
  /\ NoDownload
  /\ main = IdleMain
  /\ net = IdleNet
  /\ ToolsIdle
  /\ san = IdleSan
  /\ \E container \in {"flac", "mp3"}, mid \in AlbumMids, vs \in VsLists, size \in SizeArgs :
       \E good \in SUBSET UrlsOf(mid, vs) :
         cover = [IdleCover EXCEPT !.container = container, !.album_mid = mid,
                                   !.vs = vs, !.size = size, !.good = good]

\* audio.save(): the tags are written, or the save raises.
Save(c, ok) ==
  IF ok THEN [c EXCEPT !.pc = "saved"] ELSE [c EXCEPT !.pc = "failed", !.why = "save"]

\* Fault model: a metadata write that gives up when there is no cover.
AfterResolverNeedsCover(c, ok) ==
  IF c.resolver = "returned" /\ c.result # None
    THEN [c EXCEPT !.pc = "embed", !.target = c.result]
    ELSE [c EXCEPT !.pc = "failed", !.why = "cover"]

\* _add_cover_to_flac / _add_cover_to_mp3 after get_valid_cover_url: the
\* download of the resolved URL, or the rest of the metadata write without a
\* cover.  The ValueError of the resolver is caught by _add_cover_to_mp3 and
\* leaves add_metadata_to_flac as a MetadataError.
AfterResolver(c, ok) ==
  IF c.resolver = "raised"
    THEN IF c.container = "flac"
           THEN [c EXCEPT !.pc = "failed", !.why = "cover"]
           ELSE Save(c, ok)
    ELSE IF c.result # None
      THEN [c EXCEPT !.pc = "embed", !.target = c.result]
      ELSE Save(c, ok)

\* The loop over candidate_vs from its k-th element up to the next probe.
RECURSIVE VsStage(_, _)
VsStage(c, k) ==
  LET cands == candidate_vs(c.vs) IN
  IF k > Len(cands)
    THEN [c EXCEPT !.resolver = "returned", !.result = None]
    ELSE LET u == get_cover_url_by_vs(cands[k].value, c.size) IN
         IF u = ValueError THEN [c EXCEPT !.resolver = "raised"]
         ELSE IF u = None THEN VsStage(c, k + 1)
         ELSE [c EXCEPT !.pc = "probe", !.stage = "vs", !.k = k, !.target = u,
                        !.cand = cands[k]]

\* get_valid_cover_url up to its first probe.
AlbumStage(c) ==
  IF c.album_mid # <<>>
    THEN LET u == get_cover_url_by_album_mid(c.album_mid, c.size) IN
         IF u = ValueError THEN [c EXCEPT !.resolver = "raised"]
         ELSE [c EXCEPT !.pc = "probe", !.stage = "album", !.target = u,
                        !.cand = Candidate(c.album_mid, 0, 0, 0)]
    ELSE VsStage(c, 1)

\* Fault model: a resolver that goes on to the next candidate after a valid one.
AfterProbeKeepsGoing(c, data) ==
  IF c.stage = "album" THEN VsStage(c, 1) ELSE VsStage(c, c.k + 1)

\* get_valid_cover_url after download_cover returned data or None.
AfterProbe(c, data) ==
  IF data THEN [c EXCEPT !.resolver = "returned", !.result = c.target]
  ELSE IF c.stage = "album" THEN VsStage(c, 1)
  ELSE VsStage(c, c.k + 1)

\* The coroutine goes on after the resolver has left it a result.
Resume(c, ok) == IF c.resolver = "running" THEN c ELSE AfterResolver(c, ok)

CoverStep(c) ==
  /\ cover' = c
  /\ UNCHANGED <<variant, credential, prefer_flac, quality_level, disk, task, past,
                 successful_downloads, failed_downloads, batch, songs, bodies, san,
                 main, net, meta, cm, tool, ui>>

\* _add_cover_to_flac / _add_cover_to_mp3 is called and calls the resolver.
CallAddCover ==
  /\ cover.pc = "idle"
  /\ \E ok \in BOOLEAN :
       CoverStep(Resume(AlbumStage([cover EXCEPT !.pc = "called", !.resolver = "running"]), ok))

\* A probe of the resolver is answered.
ProbeDone ==
  /\ cover.pc = "probe"
  /\ \E r \in ResponsesFor(cover.target, cover.good), ok \in BOOLEAN :
       LET data == download_cover(r)
           c == [cover EXCEPT !.probes = Append(@, cover.cand), !.last = r, !.accepted = data]
       IN CoverStep(Resume(AfterProbe(c, data), ok))

\* An embedded image: its description, its MIME type and where its bytes
\* come from (the file as it was, or the cover download).
Image(desc, mime, from) == [desc |-> desc, mime |-> mime, from |-> from]

\* The images a file can carry before the metadata write: none, one without
\* a description, one with a description.
Priors ==
  { {}, {Image("", "image/jpeg", "file")}, {Image("Front", "image/jpeg", "file")} }

\* The answers to the second request for the resolved URL: a failure, or a
\* body of either length that starts as a JPEG or as a GIF.
EmbedResponses ==
  {r \in Responses : r.status = "200" => r.head \in {<<255, 216, 255, 224>>, <<71, 73, 70, 56>>}}

\* The last characters of a cover URL: both URL builders end it in ".jpg".
Suffix(u) == ".jpg"

\* cover_url.lower().endswith('.png')
Mime(u) == IF Suffix(u) = ".png" THEN "image/png" ELSE "image/jpeg"

\* _clear_existing_mp3_tags: del audio['APIC:'], the frame whose description
\* is empty; add_metadata_to_flac clears nothing before the cover step.
Loaded(container, prior) ==
  IF container = "mp3" THEN {i \in prior : i.desc # ""} ELSE prior

\* audio.clear_pictures(); audio.add_picture(image) for FLAC, audio.add(APIC
\* (desc='Cover')) for MP3, which replaces the frame of the same description.
WithCover(container, imgs, u) ==
  IF container = "flac" THEN {Image("Cover", Mime(u), "cover")}
  ELSE {i \in imgs : i.desc # "Cover"} \cup {Image("Cover", Mime(u), "cover")}

\* The download of the resolved URL by _add_cover_to_* is answered: the
\* picture is set from its data, and the tags are saved.  The images the file
\* carried were read with its tags; nothing used them before this step.
EmbedDone ==
  /\ cover.pc = "embed"
  /\ \E r \in EmbedResponses, ok \in BOOLEAN, prior \in Priors :
       LET data == download_cover(r)
           imgs == Loaded(cover.container, prior)
           c == [cover EXCEPT !.last = r, !.accepted = data, !.fetches = @ + 1,
                              !.picture = IF data THEN cover.target ELSE None,
                              !.prior = prior,
                              !.pics = IF data THEN WithCover(cover.container, imgs, cover.target)
                                       ELSE imgs]
       IN CoverStep(Save(c, ok))

NextCover == CallAddCover \/ ProbeDone \/ EmbedDone

SpecCover == InitCover /\ [][NextCover]_vars

\* ---------------------------------------------- properties: cover resolver
\* The server and path a probe went to.
ProbeKey(p) == <<IF p.priority = 0 THEN "album" ELSE "vs", p.value>>

\* Candidate a ranks before candidate b: by priority, then by position in
\* the vs list, then by position among the parts of one hint.
Before(a, b) ==
  \/ a.priority < b.priority
  \/ a.priority = b.priority /\ a.i < b.i
  \/ a.priority = b.priority /\ a.i = b.i /\ a.j < b.j

\* h is a single-token hint of length >= 3.
SingleToken(h) == Len(h) >= 3 /\ \A k \in 1..Len(h) : h[k] # ","

\* The vs candidates of the track, as a set: every single token of length
\* >= 3 and every part of length >= 3 of every comma-joined hint.
Usable(vs) ==
  {Candidate(vs[i], 1, i - 1, 0) : i \in {n \in 1..Len(vs) : SingleToken(vs[n])}}
    \cup UNION { {Candidate(PartsOf(vs[i])[j], 2, i - 1, j - 1) :
                    j \in {m \in 1..Len(PartsOf(vs[i])) : Len(PartsOf(vs[i])[m]) >= 3}} :
                 i \in {n \in 1..Len(vs) : HasComma(vs[n])} }

\* C14: the probes are made in ascending rank - the album mid, then every
\* single token, then every comma-split part, each group in list order -
\* every vs probe is for a candidate of the track, no candidate is passed
\* over, and with a failing album mid and a valid single token the resolver
\* returns the first valid single token, wherever the comma-joined hints are.
C14_CoverCandidateOrder ==
  LET P == cover.probes
      vs == cover.vs
      none == cover.resolver = "returned" /\ cover.result = None
  IN /\ \A a, b \in 1..Len(P) : a < b => Before(P[a], P[b])
     /\ \A a \in 1..Len(P) : P[a].priority # 0 => P[a] \in Usable(vs)
     /\ cover.pc = "probe" /\ cover.stage = "vs" => cover.cand \in Usable(vs)
     /\ \A u \in Usable(vs) :
          (none \/ \E a \in 1..Len(P) : Before(u, P[a])) => \E a \in 1..Len(P) : P[a] = u
     /\ (cover.resolver = "returned" /\ <<"album", cover.album_mid>> \notin cover.good) =>
          \A i \in 1..Len(vs) :
            (/\ SingleToken(vs[i])
             /\ <<"vs", vs[i]>> \in cover.good
             /\ \A n \in 1..(i - 1) : SingleToken(vs[n]) => <<"vs", vs[n]>> \notin cover.good)
            => cover.result = Url("vs", vs[i], cover.size)

\* The vs list is 'abd,cde' then 'abc', the album cover is not served and
\* both 'abd' and 'abc' are: the resolver returned the URL of 'abc'.
C14_Witness ==
  /\ cover.vs = << <<"a", "b", "d", ",", "c", "d", "e">>, <<"a", "b", "c">> >>
  /\ cover.album_mid = <<"m">>
  /\ cover.good = {<<"vs", <<"a", "b", "c">>>>, <<"vs", <<"a", "b", "d">>>>}
  /\ cover.resolver = "returned"
  /\ cover.result = Url("vs", <<"a", "b", "c">>, COVER_SIZE)
  /\ Len(cover.probes) = 2

\* C15: every probe before the last one was turned down; a probe that
\* validates ends the resolver at once with the URL of that probe, so no
\* candidate after it is probed, and a valid album cover means that no vs
\* candidate is probed.
C15_CoverStopsAtFirstValid ==
  LET P == cover.probes
      n == Len(P)
  IN /\ \A a \in 1..(n - 1) : ProbeKey(P[a]) \notin cover.good
     /\ (n > 0 /\ ProbeKey(P[n]) \in cover.good) =>
          /\ cover.resolver = "returned"
          /\ cover.pc # "probe"
          /\ cover.result # None
          /\ Key(cover.result) = ProbeKey(P[n])
     /\ (cover.resolver = "returned" /\ cover.result # None) =>
          n > 0 /\ Key(cover.result) = ProbeKey(P[n]) /\ Key(cover.result) \in cover.good
     /\ (<<"album", cover.album_mid>> \in cover.good /\ cover.size \in ValidSizes
           /\ cover.pc \notin {"idle", "probe"}) =>
          /\ n = 1
          /\ cover.result = Url("album", cover.album_mid, cover.size)

\* The album cover and a vs hint are both served: one probe, the album URL.
C15_Witness ==
  /\ cover.good = {<<"album", <<"m">>>>, <<"vs", <<"a", "b", "c">>>>}
  /\ cover.resolver = "returned"
  /\ cover.result = Url("album", <<"m">>, COVER_SIZE)
  /\ Len(cover.probes) = 1
  /\ cover.pc = "embed"

\* C16: with a size of the list the resolver never raises; when no URL of
\* the track serves a cover - there is none, or every probe ends in a status
\* other than 200, an invalid body or a transport error - it returns None
\* after probing each candidate once, and the metadata write goes on to the
\* save without a picture.
C16_CoverAbsenceNotAnError ==
  /\ cover.size \in ValidSizes => cover.resolver # "raised"
  /\ (cover.size \in ValidSizes /\ cover.good = {} /\ cover.pc \notin {"idle", "probe"}) =>
       /\ cover.resolver = "returned"
       /\ cover.result = None
       /\ Len(cover.probes) = Len(candidate_vs(cover.vs))
                                + (IF cover.album_mid # <<>> THEN 1 ELSE 0)
  /\ (cover.resolver = "returned" /\ cover.result = None) =>
       /\ cover.pc \in {"saved", "failed"}
       /\ cover.picture = None
       /\ cover.fetches = 0
       /\ cover.pc = "failed" => cover.why = "save"

\* Two probes failed, the last of them with a transport error; the tags
\* were saved without a picture.
C16_Witness ==
  /\ Len(cover.probes) >= 2
  /\ cover.last.status = "error"
  /\ cover.resolver = "returned"
  /\ cover.result = None
  /\ cover.pc = "saved"
  /\ cover.picture = None

\* C17: download_cover accepts a response if and only if its status is 200,
\* its body is longer than MIN_FILE_SIZE (1024) bytes and the body begins
\* with FF D8 or with 89 'P' 'N' 'G'.
C17_CoverValidation ==
  cover.last # NoResponse =>
    (cover.accepted <=>
       /\ cover.last.status = "200"
       /\ cover.last.size > MIN_FILE_SIZE
       /\ \/ cover.last.head[1] = 255 /\ cover.last.head[2] = 216
          \/ /\ cover.last.head[1] = 137 /\ cover.last.head[2] = 80
             /\ cover.last.head[3] = 78 /\ cover.last.head[4] = 71)

\* A JPEG body of exactly MIN_FILE_SIZE bytes was turned down.
C17_Witness ==
  /\ cover.last = [status |-> "200", size |-> MIN_FILE_SIZE, head |-> <<255, 216, 255, 224>>]
  /\ ~cover.accepted
  /\ Len(cover.probes) = 1
  /\ cover.pc = "probe"

\* C18 as stated: called with a size outside the list, the resolver raises
\* to its caller before any probe, for every track.
C18_InvalidSizeFailsFast ==
  (cover.size \notin ValidSizes /\ cover.pc # "idle") =>
    /\ cover.resolver = "raised"
    /\ cover.probes = <<>>

\* ------------------------------------------------ properties: one download, II
\* Number of traced requests of the kinds K.
CountEv(e, K) == Cardinality({k \in 1..Len(e) : e[k].kind \in K})

\* The scenario: song.py with FLAC preferred, the track X / Y with no album
\* mid and no vs hints, nothing at its paths, no URL for FLAC, 50000 bytes
\* for MP3_320, and the file written.
C22_Scenario(tk) ==
  /\ variant = "song" /\ prefer_flac /\ past = <<>>
  /\ tk.song.singer = <<"X">> /\ tk.song.title = <<"Y">>
  /\ tk.song.album_mid = <<>> /\ tk.song.vs = <<>>
  /\ tk.exist0 = {}
  /\ Len(tk.ev) >= 5
  /\ tk.ev[1] = Event("url_none", 1, 0)
  /\ tk.ev[2] = Event("url_ok", 2, 0)
  /\ tk.ev[3] = Event("get_big", 2, 50000)
  /\ tk.ev[4].kind = "open_ok"
  /\ tk.ev[5].kind = "write_ok"

\* C22: in the scenario the download ends as a success at MP3_320 with the
\* file 'X - Y.mp3' holding the 50000 bytes, no .flac file, one lyrics fetch
\* and no cover probe.
C22_EndToEnd ==
  LET tk == task[1] IN
  (C22_Scenario(tk) /\ tk.pc = "done") =>
    /\ Strategy[1] = "FLAC" /\ Strategy[2] = "MP3_320"
    /\ tk.result = "success" /\ tk.rtier = 2
    /\ FilePath(tk.song, "MP3_320") = << <<"X", " ", "-", " ", "Y">>, ".mp3" >>
    /\ disk[FilePath(tk.song, "MP3_320")].st = "full"
    /\ disk[FilePath(tk.song, "MP3_320")].mid = tk.song.mid
    /\ disk[FilePath(tk.song, "MP3_320")].size = 50000
    /\ ~Exists(disk[FilePath(tk.song, "FLAC")])
    /\ CountEv(tk.ev, {"lyrics_ok", "lyrics_none"}) = 1
    /\ CountEv(tk.ev, {"cover"}) = 1
    /\ \A k \in 1..Len(tk.ev) : tk.ev[k].kind = "cover" => tk.ev[k].size = 0
    /\ CountEv(tk.ev, UrlKinds) = 2 /\ Fetches(tk.ev) = 1

\* The scenario has run to its end and the tags were saved.
C22_Witness ==
  /\ C22_Scenario(task[1])
  /\ task[1].pc = "done"
  /\ task[1].result = "success"
  /\ disk[FilePath(task[1].song, "MP3_320")].tags = task[1].song.mid
  /\ disk[FilePath(task[1].song, "MP3_320")].size = 50000

\* The requests and file operations made for tier i or a later tier.
FromTier(e, i) == {k \in 1..Len(e) : e[k].tier >= i}

\* C23: a tier whose path exists when the tier loop reaches it gets no URL
\* resolution and no fetch, nor does any later tier; nothing is written and
\* the call returns the skipped outcome at that tier.
C23_ExistsCheckGuards ==
  LET tk == task[1] IN
  /\ tk.pc \in {"url", "get", "open"} => ~Exists(disk[TierPath(tk)])
  /\ \A i \in tk.exist0 : FromTier(tk.ev, i) = {}
  /\ (tk.pc = "done" /\ tk.result = "skipped") =>
       /\ tk.rtier \in tk.exist0
       /\ \A i \in tk.exist0 : tk.rtier <= i
       /\ \A k \in 1..Len(tk.ev) : tk.ev[k].kind \in UrlKinds \cup FetchKinds
       /\ past = <<>> => \A p \in Paths : disk[p] \in {OldFile, NoFile}
  /\ (tk.pc = "done" /\ tk.exist0 # {} /\ tk.result = "failed") =>
       tk.why \in {"nocred", "exception"}

\* The first tier missed, the second tier's path existed, and the call returned skipped.
C23_Witness ==
  /\ task[1].pc = "done"
  /\ task[1].result = "skipped"
  /\ task[1].rtier = 2
  /\ Len(task[1].ev) >= 2
  /\ FromTier(task[1].ev, 2) = {}

\* The requests of e are made tier by tier in the order of the strategy: the
\* tiers never go down, a tier gets at most one URL resolution and at most
\* one fetch, and every tier is a position of the strategy.
InStrategyOrder(e) ==
  /\ \A k \in 1..Len(e) : e[k].tier \in 1..Len(Strategy)
  /\ \A j, k \in 1..Len(e) : j < k => e[j].tier <= e[k].tier
  /\ \A j, k \in 1..Len(e) :
       (j < k /\ e[j].kind \in UrlKinds /\ e[k].kind \in UrlKinds) => e[j].tier < e[k].tier
  /\ \A j, k \in 1..Len(e) :
       (j < k /\ e[j].kind \in FetchKinds /\ e[k].kind \in FetchKinds) => e[j].tier < e[k].tier

\* C24 as stated: the tiers are attempted in the listed order, each at most
\* once, none outside the strategy, with at most |strategy| URL resolutions
\* and fetches, and a call that has ended has ended with exactly one of the
\* outcomes success, skipped, failed.
C24_TierOrderAndOutcome ==
  LET tk == task[1] IN
  /\ InStrategyOrder(tk.ev)
  /\ CountEv(tk.ev, UrlKinds) <= Len(Strategy)
  /\ Fetches(tk.ev) <= Len(Strategy)
  /\ tk.pc \in {"done", "raised"} =>
       tk.pc = "done" /\ tk.result \in {"success", "skipped", "failed"}

\* The file a successful call left at the path of the tier it ended on is
\* the whole payload it fetched.
SuccessOnDisk(tk) ==
  LET f == disk[FilePath(tk.song, Strategy[tk.rtier])] IN
  f.st = "full" /\ f.mid = tk.song.mid /\ f.size = tk.payload

\* C25 as stated: a call that returned success at tier T left the complete
\* payload at T's path; a call that returned failed created or modified no
\* file (the first call of a run: the folder is as it was found).
C25_OutcomeMatchesDisk ==
  LET tk == task[1] IN
  (tk.pc = "done" /\ past = <<>>) =>
    /\ tk.result = "success" => SuccessOnDisk(tk)
    /\ tk.result = "failed" => \A p \in Paths : disk[p] \in {OldFile, NoFile}

\* ------------------------------------------------ properties: a batch, II
\* The download t has fetched a payload and written it to the path of its tier.
Persisted(t) == task[t].pc \in {"lyrics", "tag"}

\* C26 as stated: no two downloads of one download_songlist run both fetch
\* and persist a payload to the same destination path.
C26_OneWriterPerPath ==
  \A t, u \in Tasks :
    (t # u /\ Persisted(t) /\ Persisted(u)) => TierPath(task[t]) # TierPath(task[u])

\* No download is between its first and its last step.
Quiet == \A t \in Tasks : task[t].pc \in {"idle", "done", "raised", "joined"}

\* C27 as stated: whatever the interleaving of two same-name downloads, the
\* file left at the shared path is one track's complete payload - never a
\* mixture of two payloads - and the tags saved in it are that track's.
C27_CollisionCorruptionFree ==
  Quiet =>
    \A p \in Paths :
      (disk[p].st = "full" /\ disk[p] # OldFile) =>
        /\ disk[p].mid # "mixed"
        /\ disk[p].tags \in {"", disk[p].mid}

\* ---------------------------------------------- properties: cover embedding
\* C29 as stated: when the resolver returned a URL and the tags were saved,
\* the file carries exactly one image, the resolved cover with the MIME type
\* of its URL, whatever images it carried before.
C29_ExactlyOneCover ==
  (cover.pc = "saved" /\ cover.result # None) =>
    cover.pics = {Image("Cover", Mime(cover.result), "cover")}

\* C30 as stated: the accepted cover URL is downloaded at most once, so the
\* requests of a metadata write are the probes of the resolver and no more.
C30_NoDoubleFetch ==
  LET requests == Len(cover.probes) + cover.fetches IN
  cover.pc \in {"saved", "failed"} => requests = Len(cover.probes)

-----------------------------------------------------------------------------
\* The program run: main(), InteractiveInterface.run and the NetworkManager.

\* aiohttp.ClientSession(timeout=timeout): a new open session, held in self.session.
NewSession(n) ==
  [n EXCEPT !.session = n.created + 1, !.created = n.created + 1,
            !.open = n.open \cup {n.created + 1}]

\* Fault model: a get_session that opens a session on every call.
GetSessionAlwaysNew(n) == NewSession(n)

\* NetworkManager.get_session up to its yield: no await between test and assignment.
get_session(n) == IF n.session = 0 THEN NewSession(n) ELSE n

\* Fault model: an exit from the search prompt that ends the process at once.
LeaveExitSkipsFinally(m, how) ==
  [m EXCEPT !.pc = IF how = "exit" THEN "ended" ELSE "finally", !.how = how]

\* main()'s try statement is left: by return, by an exception that "except
\* Exception" handles, or by SystemExit / KeyboardInterrupt / cancellation,
\* which it does not handle; the finally clause runs in each case.
Leave(m, how) == [m EXCEPT !.pc = "finally", !.how = how]

\* The event loop runs the other coroutines only while main() waits at an await.
LoopRuns == main.pc \in {"await", "closing"}

InitMain ==
  /\ variant \in {"song", "songlist"}
  /\ credential = FALSE
  /\ prefer_flac = FALSE
  /\ quality_level = 3
  /\ disk = [p \in Paths |-> NoFile]
  /\ task = [t \in Tasks |-> IdleTask]
  /\ past = <<>>
  /\ successful_downloads = 0
  /\ failed_downloads = 0
  /\ batch = [pc |-> "idle", i |-> 0, n |-> 0, success_count |-> 0, failed_count |-> 0,
              progress |-> <<>>, sleeps |-> 0]
  /\ songs = <<>>
  /\ bodies = {}
  /\ cover = IdleCover
  /\ san = IdleSan
  /\ main = [IdleMain EXCEPT !.pc = "start"]
  /\ net = IdleNet
  /\ ToolsIdle

MainStep(m, n, c) ==
  /\ main' = m
  /\ net' = n
  /\ credential' = c
  /\ UNCHANGED <<variant, prefer_flac, quality_level, disk, task, past,
                 successful_downloads, failed_downloads, batch, songs, bodies,
                 cover, san, meta, cm, tool, ui>>

\* downloader.initialize(), called by main() and again by InteractiveInterface.run:
\* the session is entered, then the credential is loaded; either await may raise
\* or be interrupted. songlist.py's run returns when there is no credential.
Initialize ==
  /\ main.pc \in {"start", "run"}
  /\ \E r \in {"ok", "raise", "interrupt"}, c \in BOOLEAN :
       LET m == [main EXCEPT !.inits = main.inits + 1] IN
       MainStep(IF r # "ok" THEN Leave(m, IF r = "raise" THEN "initialize" ELSE r)
                ELSE IF main.pc = "start" THEN [m EXCEPT !.pc = "run"]
                ELSE IF variant = "songlist" /\ ~c THEN Leave(m, "nocredential")
                ELSE [m EXCEPT !.pc = "prompt"],
                get_session(net),
                IF r = "ok" THEN c ELSE credential)

\* The coroutines a download at the prompt starts: one in song.py
\* (download_song), a window of them in songlist.py (asyncio.gather).
Started(W) ==
  /\ W # {}
  /\ \A w \in W : main.co[w].pc = "idle"
  /\ variant = "song" => Cardinality(W) = 1

\* input() at the prompt: 'q' (song.py: exit(0); songlist.py: break),
\* Ctrl-C (KeyboardInterrupt: break), or a download that is awaited.
Prompt ==
  /\ main.pc = "prompt"
  /\ \/ MainStep(Leave(main, IF variant = "song" THEN "exit" ELSE "quit"), net, credential)
     \/ MainStep(Leave(main, "interrupt"), net, credential)
     \/ /\ main.rounds < MaxRounds
        /\ \E W \in SUBSET Workers :
             /\ Started(W)
             /\ MainStep([main EXCEPT !.pc = "await", !.rounds = main.rounds + 1,
                                      !.co = [w \in Workers |->
                                                IF w \in W THEN [IdleCo EXCEPT !.pc = "ready"]
                                                ELSE main.co[w]]],
                         net, credential)

\* "async with self.network.get_session() as session": a coroutine takes the
\* session and sends a request on it.
Request(w) ==
  /\ LoopRuns
  /\ main.co[w].pc = "ready"
  /\ LET n == get_session(net) IN
     MainStep([main EXCEPT !.co[w] = [pc |-> "request", session |-> n.session,
                                      reqs |-> main.co[w].reqs + 1]],
              n, credential)

\* The request is answered or fails; the coroutine makes another request,
\* returns, or raises.
Answer(w) ==
  /\ LoopRuns
  /\ main.co[w].pc = "request"
  /\ \E nxt \in {"ready", "done", "raised"} :
       /\ nxt = "ready" => main.co[w].reqs < MaxRequests
       /\ MainStep([main EXCEPT !.co[w].pc = nxt], net, credential)

\* The awaited download returns: every coroutine it started has returned.
AwaitDone ==
  /\ main.pc = "await"
  /\ \A w \in Workers : main.co[w].pc \in {"idle", "done"}
  /\ MainStep([main EXCEPT !.pc = "prompt", !.co = [w \in Workers |-> IdleCo]],
              net, credential)

\* The awaited download raises: the loop's "except Exception" prints and goes
\* back to the prompt; the coroutines that did not raise are still running.
AwaitRaise ==
  /\ main.pc = "await"
  /\ \E w \in Workers :
       /\ main.co[w].pc = "raised"
       /\ MainStep([main EXCEPT !.pc = "prompt",
                                !.co = [v \in Workers |->
                                          IF main.co[v].pc \in {"raised", "done"}
                                          THEN IdleCo ELSE main.co[v]]],
                   net, credential)

\* Ctrl-C while the download is awaited.
AwaitInterrupt ==
  /\ main.pc = "await"
  /\ MainStep(Leave(main, "interrupt"), net, credential)

\* finally: await downloader.close() -> NetworkManager.close: "if self.session:"
\* then "await self.session.close()".
CloseCalled ==
  /\ main.pc = "finally"
  /\ MainStep([main EXCEPT !.pc = IF net.session # 0 THEN "closing" ELSE "ended",
                           !.closes = main.closes + 1],
              net, credential)

\* session.close() has returned: self.session = None.
CloseDone ==
  /\ main.pc = "closing"
  /\ MainStep([main EXCEPT !.pc = "ended"],
              [net EXCEPT !.session = 0, !.open = net.open \ {net.session}],
              credential)

NextMain ==
  \/ Initialize
  \/ Prompt
  \/ \E w \in Workers : Request(w)
  \/ \E w \in Workers : Answer(w)
  \/ AwaitDone
  \/ AwaitRaise
  \/ AwaitInterrupt
  \/ CloseCalled
  \/ CloseDone

SpecMain == InitMain /\ [][NextMain]_vars

\* C21: once the session has been created, every way the run can end (quit,
\* initialize or the loop raising, keyboard interrupt, exit from the search
\* prompt, no credential) has passed through close(), and the network manager
\* then holds no session and no session is left open.
C21_SessionReleased ==
  main.pc = "ended" =>
    /\ net.created >= 1
    /\ main.closes = 1
    /\ net.session = 0
    /\ net.open = {}

\* song.py ended by exit(0) at the search prompt after a download, session closed.
C21_Witness ==
  /\ main.pc = "ended"
  /\ main.how = "exit"
  /\ main.rounds >= 1
  /\ net.created = 1
  /\ net.open = {}
  /\ main.closes = 1

\* C28: at most one session is open at any time and it is the one held; every
\* request of the concurrent coroutines uses the one session ever created;
\* after close() none is held.
C28_SingleSharedSession ==
  /\ Cardinality(net.open) <= 1
  /\ net.open \subseteq {net.session}
  /\ net.created <= 1
  /\ \A w \in Workers : main.co[w].pc = "request" => main.co[w].session = 1
  /\ main.pc = "ended" => net.session = 0

\* Two coroutines of a window have a request in flight on the same session.
C28_Witness ==
  /\ \A w \in Workers : main.co[w].pc = "request" /\ main.co[w].session = net.session
  /\ net.open = {1}
  /\ net.created = 1

-----------------------------------------------------------------------------
\* The metadata writers: add_metadata_to_mp3 and add_metadata_to_flac.

\* Every variable of the downloads, the cover step, the sanitizer and the run.
base ==
  <<variant, credential, prefer_flac, quality_level, disk, task, past,
    successful_downloads, failed_downloads, batch, songs, bodies, cover, san, main, net>>

\* All of them idle, for the program v.
BaseIdle(v) ==
  /\ variant = v
  /\ credential = FALSE
  /\ prefer_flac = FALSE
  /\ quality_level = 3
  /\ disk = [p \in Paths |-> NoFile]
  /\ task = [t \in Tasks |-> IdleTask]
  /\ past = <<>>
  /\ successful_downloads = 0
  /\ failed_downloads = 0
  /\ batch = [pc |-> "idle", i |-> 0, n |-> 0, success_count |-> 0, failed_count |-> 0,
              progress |-> <<>>, sleeps |-> 0]
  /\ songs = <<>>
  /\ bodies = {}
  /\ cover = IdleCover
  /\ san = IdleSan
  /\ main = IdleMain
  /\ net = IdleNet

\* A tag: the key it is stored under and the call that wrote it ("old": an
\* earlier writer, "new": this call).  ID3 keys are the frame's HashKey:
\* 'TIT2', 'APIC:<desc>', 'USLT:<desc>:<lang>'; Vorbis keys are field names.
Frame(key, from) == [key |-> key, from |-> from]

\* What a file can carry before the write: nothing, the tags this tool
\* writes, or a picture without a description and a title.
PriorTags(container) ==
  IF container = "mp3"
    THEN { {},
           {Frame(k, "old") : k \in {<<"TIT2">>, <<"TPE1">>, <<"TALB">>, <<"APIC", "Cover">>,
                                     <<"USLT", "Lyrics", "eng">>}},
           {Frame(k, "old") : k \in {<<"TIT2">>, <<"APIC", "">>}} }
    ELSE { {},
           {Frame(k, "old") : k \in {<<"title">>, <<"artist">>, <<"album">>, <<"PICTURE">>,
                                     <<"lyrics">>, <<"translyrics">>}},
           {Frame(k, "old") : k \in {<<"title">>, <<"PICTURE">>}} }

\* What get_lyric gives _add_metadata: None (it raised), or a dict with a
\* lyric text and a translated text, either of which can be empty.
LyricsResults ==
  {[present |-> FALSE, lyric |-> "", trans |-> ""]}
    \cup {[present |-> TRUE, lyric |-> l, trans |-> t] : l \in {"", "L"}, t \in {"", "T"}}

\* audio[key] = value / audio.add(frame): the tag under the key is replaced.
Put(frames, key) == {f \in frames : f.key # key} \cup {Frame(key, "new")}

RECURSIVE PutAll(_, _)
PutAll(frames, keys) ==
  IF keys = <<>> THEN frames ELSE PutAll(Put(frames, Head(keys)), Tail(keys))

\* _clear_existing_mp3_tags: del audio[tag] for 'APIC:', 'USLT:', 'TIT2',
\* 'TPE1', 'TALB' when the tag is a key of audio.
clear_existing_mp3_tags(frames) ==
  {f \in frames :
     f.key \notin {<<"APIC", "">>, <<"USLT", "">>, <<"TIT2">>, <<"TPE1">>, <<"TALB">>}}

\* Fault model: lyrics embedding that writes the translation in both containers.
AddLyricsWithTranslation(container, frames, ld) ==
  LET a == IF ld.lyric # "" THEN Put(frames, IF container = "mp3" THEN <<"USLT", "Lyrics", "eng">> ELSE <<"lyrics">>)
           ELSE frames
  IN IF ld.trans # "" THEN Put(a, <<"translyrics">>) ELSE a

\* _add_lyrics_to_mp3 / _add_lyrics_to_flac, called "if lyrics_data".
add_lyrics(container, frames, ld) ==
  IF ~ld.present THEN frames
  ELSE IF container = "mp3"
    THEN IF ld.lyric # "" THEN Put(frames, <<"USLT", "Lyrics", "eng">>) ELSE frames
    ELSE LET a == IF ld.lyric # "" THEN Put(frames, <<"lyrics">>) ELSE frames
         IN IF ld.trans # "" THEN Put(a, <<"translyrics">>) ELSE a

InitTag ==
  /\ BaseIdle("song")
  /\ cm = IdleCm /\ tool = IdleTool /\ ui = IdleUi
  /\ \E container \in {"mp3", "flac"}, ld \in LyricsResults :
       \E prior \in PriorTags(container) :
         meta = [IdleMeta EXCEPT !.pc = "start", !.container = container,
                                 !.prior = prior, !.lyrics = ld]

TagStep(m) == meta' = m /\ UNCHANGED <<base, cm, tool, ui>>

\* The metadata write up to the cover step: the tags are read from the file,
\* add_metadata_to_mp3 clears, and the title, artist and album are set.
TagBegin ==
  /\ meta.pc = "start"
  /\ TagStep([meta EXCEPT !.pc = "cover",
                          !.frames =
                            IF meta.container = "mp3"
                              THEN PutAll(clear_existing_mp3_tags(meta.prior),
                                          << <<"TIT2">>, <<"TPE1">>, <<"TALB">> >>)
                              ELSE PutAll(meta.prior,
                                          << <<"title">>, <<"artist">>, <<"album">> >>)])

\* _add_cover_to_mp3 / _add_cover_to_flac return: with cover data the cover
\* is added (FLAC: after clear_pictures), without it nothing changes; an
\* exception is caught for MP3 and ends the FLAC write.
TagCover ==
  /\ meta.pc = "cover"
  /\ \E r \in {"data", "none", "raise"} :
       TagStep(IF r = "raise" /\ meta.container = "flac"
                 THEN [meta EXCEPT !.pc = "failed"]
                 ELSE [meta EXCEPT !.pc = "lyrics",
                                   !.frames =
                                     IF r # "data" THEN meta.frames
                                     ELSE IF meta.container = "mp3"
                                       THEN Put(meta.frames, <<"APIC", "Cover">>)
                                       ELSE Put(meta.frames, <<"PICTURE">>)])

\* The lyrics are added and audio.save() writes the tags, or raises.
TagSave ==
  /\ meta.pc = "lyrics"
  /\ \E ok \in BOOLEAN :
       TagStep(IF ok
                 THEN [meta EXCEPT !.pc = "saved",
                                   !.frames = add_lyrics(meta.container, meta.frames, meta.lyrics)]
                 ELSE [meta EXCEPT !.pc = "failed"])

NextTag == TagBegin \/ TagCover \/ TagSave

SpecTag == InitTag /\ [][NextTag]_vars

\* The frames of the kinds K in the saved tags.
FramesOf(K) == {f \in meta.frames : f.key[1] \in K}

\* C31 as stated: after add_metadata_to_mp3 has saved, the file carries one
\* title, one artist and one album frame, all new, and no cover or lyrics
\* frame other than those written by this call.
C31_NoStaleFrames ==
  (meta.pc = "saved" /\ meta.container = "mp3") =>
    /\ \A k \in {"TIT2", "TPE1", "TALB"} : FramesOf({k}) = {Frame(<<k>>, "new")}
    /\ \A f \in FramesOf({"APIC", "USLT"}) : f.from = "new"

\* C32: the lyric text is embedded in both containers exactly when it is
\* not empty; the translation is embedded exactly when it is not empty and
\* the container is FLAC; the MP3 write saves without a translation field.
C32_LyricsByContainer ==
  meta.pc = "saved" =>
    LET ld == meta.lyrics
        key == IF meta.container = "mp3" THEN <<"USLT", "Lyrics", "eng">> ELSE <<"lyrics">>
    IN /\ Frame(key, "new") \in meta.frames <=> (ld.present /\ ld.lyric # "")
       /\ Frame(<<"translyrics">>, "new") \in meta.frames
            <=> (meta.container = "flac" /\ ld.present /\ ld.trans # "")
       /\ \A f \in meta.frames :
            f.from = "new" /\ f.key[1] \in {"USLT", "lyrics", "translyrics"}
              => f.key \in {key, <<"translyrics">>}

\* An MP3 write with a lyric and a translation has saved the lyric only.
C32_Witness ==
  /\ meta.pc = "saved"
  /\ meta.container = "mp3"
  /\ meta.lyrics = [present |-> TRUE, lyric |-> "L", trans |-> "T"]
  /\ Frame(<<"USLT", "Lyrics", "eng">>, "new") \in meta.frames
  /\ Frame(<<"translyrics">>, "new") \notin meta.frames

-----------------------------------------------------------------------------
\* CredentialManager.load_and_refresh_credential of the two downloaders.

MaxCalls == 2       \* calls of load_and_refresh_credential on one manager

\* Fault model: a call that keeps the flags of the call before.
KeepFlags(c) == c

\* The first statements of load_and_refresh_credential.
ResetFlags(c) ==
  [c EXCEPT !.credential_loaded = FALSE, !.credential_refreshed = FALSE,
            !.loaded_from_api = FALSE]

\* return <credential> / return None
CredReturn(c, result) == [c EXCEPT !.pc = "returned", !.result = result]

\* Fault model: the request to the external API in both programs.
FallbackAlwaysApi(c) == [c EXCEPT !.pc = "api", !.api = c.api + 1]

\* The local credential cannot be used: song.py returns None, songlist.py
\* calls _try_load_from_api, which requests {external_api_url}/api/credential.
Fallback(c) ==
  IF variant = "song" THEN CredReturn(c, "none")
  ELSE [c EXCEPT !.pc = "api", !.api = c.api + 1]

\* Fault model: a refresh that returns the credential whatever the write-back did.
RefreshedIgnoringWrite(r, w) == r = "ok"

\* _refresh_credential: cred.refresh() and pickle.dump both inside the try.
Refreshed(r, w) == r = "ok" /\ w = "ok"

InitCred ==
  /\ \E v \in {"song", "songlist"} : BaseIdle(v)
  /\ meta = IdleMeta /\ tool = IdleTool /\ ui = IdleUi
  /\ \E f \in {"missing", "corrupt", "valid"} : cm = [IdleCm EXCEPT !.file = f]

CredStep(c) == cm' = c /\ UNCHANGED <<base, meta, tool, ui>>

\* load_and_refresh_credential up to its first await: the flags are reset,
\* the file is looked for and unpickled.
CredCall ==
  /\ cm.pc \in {"idle", "returned"}
  /\ cm.calls < MaxCalls
  /\ LET c == [ResetFlags(cm) EXCEPT !.calls = cm.calls + 1, !.result = "none", !.checked = "",
                                     !.refresh = "", !.wrote = FALSE, !.api = 0,
                                     !.answer = ""]
     IN CredStep(IF c.file = "valid" THEN [c EXCEPT !.pc = "check"] ELSE Fallback(c))

\* await check_expired(cred): not expired, expired, or it raises.
CredChecked ==
  /\ cm.pc = "check"
  /\ \E r \in {"fresh", "expired", "raised"} :
       LET c == [cm EXCEPT !.checked = r] IN
       CredStep(CASE r = "fresh"   -> CredReturn([c EXCEPT !.credential_loaded = TRUE], "local")
                  [] r = "expired" -> [c EXCEPT !.pc = "can"]
                  [] r = "raised"  -> Fallback(c))

\* await cred.can_refresh(): yes, no, or it raises.
CredCanRefresh ==
  /\ cm.pc = "can"
  /\ \E r \in {"yes", "no", "raised"} :
       CredStep(IF r = "yes" THEN [cm EXCEPT !.pc = "refresh"]
                ELSE Fallback([cm EXCEPT !.refresh = IF r = "no" THEN "cannot" ELSE "raised"]))

\* await cred.refresh() and the write-back: open("wb") and pickle.dump.
CredRefreshed ==
  /\ cm.pc = "refresh"
  /\ \E r \in {"ok", "failed"}, w \in {"ok", "open_fails", "dump_fails"} :
       /\ r = "failed" => w = "open_fails"
       /\ LET c == [cm EXCEPT !.refresh = r,
                              !.wrote = (r = "ok" /\ w = "ok"),
                              !.file = IF r = "ok" /\ w = "dump_fails" THEN "corrupt" ELSE cm.file]
          IN CredStep(IF Refreshed(r, w)
                        THEN CredReturn([c EXCEPT !.credential_refreshed = TRUE,
                                                  !.credential_loaded = TRUE], "refreshed")
                        ELSE Fallback(c))

\* _try_load_from_api after await load_from_external_api(): a credential
\* (status 200 with a musicid and a musickey), or None: another status, an
\* answer without musicid or musickey, a timeout or another exception.
CredFromApi ==
  /\ cm.pc = "api"
  /\ \E a \in {"credential", "non200", "incomplete", "timeout", "raised"} :
       LET c == [cm EXCEPT !.answer = a] IN
       CredStep(IF a = "credential"
                  THEN CredReturn([c EXCEPT !.credential_loaded = TRUE,
                                            !.loaded_from_api = TRUE], "api")
                  ELSE CredReturn(c, "none"))

NextCred == CredCall \/ CredChecked \/ CredCanRefresh \/ CredRefreshed \/ CredFromApi

SpecCred == InitCred /\ [][NextCred]_vars

\* C33: after every call the flags describe that call's result: loaded iff a
\* credential was returned, refreshed iff it is the refreshed local one,
\* loaded_from_api iff it is the external one (never in song.py).
C33_FlagsAgreeWithResult ==
  cm.pc = "returned" =>
    /\ cm.credential_loaded <=> cm.result # "none"
    /\ cm.credential_refreshed => cm.credential_loaded
    /\ cm.loaded_from_api => (cm.credential_loaded /\ ~cm.credential_refreshed)
    /\ cm.credential_refreshed <=> cm.result = "refreshed"
    /\ cm.loaded_from_api <=> cm.result = "api"
    /\ variant = "song" => ~cm.loaded_from_api

\* A second call on the same manager returned the unexpired local credential
\* with the loaded flag set and the refreshed flag clear.
C33_Witness ==
  /\ cm.pc = "returned"
  /\ cm.calls = 2
  /\ cm.result = "local"
  /\ cm.credential_loaded
  /\ ~cm.credential_refreshed

\* C34 as stated: the external API is contacted only when the local file is
\* missing, fails to load, or holds an expired credential that could not be
\* refreshed.
C34_ApiOnlyWithoutLocal ==
  cm.api > 0 =>
    \/ cm.file \in {"missing", "corrupt"}
    \/ cm.checked = "expired" /\ cm.refresh # "" /\ ~cm.wrote

\* C34, amended: the external API is contacted only in those cases or when
\* the expiry check of the loaded credential raises; a local credential
\* found unexpired or refreshed is returned with no request to the API, and
\* song.py never contacts it.
C34_ApiOnlyAsFallback ==
  /\ cm.api > 0 =>
       /\ variant = "songlist"
       /\ cm.api = 1
       /\ \/ cm.file \in {"missing", "corrupt"}
          \/ cm.checked = "raised"
          \/ cm.checked = "expired" /\ cm.refresh # "" /\ ~cm.wrote
  /\ cm.result \in {"local", "refreshed"} => cm.api = 0

\* The file held a credential, the expiry check raised, and the API was asked.
C34_Witness ==
  /\ cm.file = "valid"
  /\ cm.checked = "raised"
  /\ cm.api = 1
  /\ cm.pc = "returned"
  /\ cm.result = "api"

\* C35: a local credential reported expired is returned only refreshed and
\* written back; otherwise the result is absent or the external credential.
C35_ExpiredNeverUsedAsIs ==
  /\ cm.result = "local" => cm.checked = "fresh"
  /\ cm.result = "refreshed" => (cm.checked = "expired" /\ cm.refresh = "ok" /\ cm.wrote)
  /\ (cm.pc = "returned" /\ cm.checked = "expired" /\ ~(cm.refresh = "ok" /\ cm.wrote)) =>
       cm.result \in (IF variant = "song" THEN {"none"} ELSE {"none", "api"})

\* An expired credential was refreshed but the write-back failed: not returned.
C35_Witness ==
  /\ cm.pc = "returned"
  /\ cm.checked = "expired"
  /\ cm.refresh = "ok"
  /\ ~cm.wrote
  /\ cm.result = "none"

\* C38: Download log agrees with the returned counts. When download_songlist
\* returns with a credential present, the failure entries of the download log
\* are as many as the returned failure count, the success entries plus the
\* skips are as many as the returned success count, and the summary printed
\* before the return (the lengths of the two lists of the log) shows the
\* returned success and failure counts.
C38_LogAgreesWithCounts ==
  credential /\ batch.pc = "returned" =>
    /\ failed_downloads = batch.failed_count
    /\ successful_downloads + Cardinality(Collected({"skipped"})) = batch.success_count
    /\ <<successful_downloads, failed_downloads>> =
         <<batch.success_count, batch.failed_count>>

\* ---------------------------------------------------------------------------
\* The credential tools: qr_login of signin.py and of credential.py, and
\* show_credential_info.

MaxPolls == 3

\* Lengths of the secret values of a credential: empty, exactly the ten
\* characters the display keeps, and longer.
SecretLens == {0, 10, 11}

\* The fields of a Credential object.
CredentialFields ==
  {"openid", "refresh_token", "access_token", "expired_at", "musicid", "musickey",
   "unionid", "str_musicid", "refresh_key", "encrypt_uin", "login_type"}

\* The fields whose value lets a holder act as the user.
SecretFields == {"access_token", "refresh_token", "musickey", "refresh_key", "cookie"}

\* str(value) of field k of credential c, as a sequence of characters
\* (numbers); the character 0 is ".".
Value(c, k) == IF k \in SecretFields THEN [i \in 1..c.len |-> i] ELSE <<c.id>>

Dots == <<0, 0, 0>>

\* show_credential_info, the text printed for one field.
display_value(key, value) ==
  IF key \in {"token", "refresh_token", "cookie"}
    THEN IF Len(value) > 10 THEN SubSeq(value, 1, 10) \o Dots ELSE value
    ELSE value

\* print(f"... {credential}"): the repr of the credential holds every field.
PrintedWhole(c) == {<<k, Value(c, k)>> : k \in CredentialFields}

\* The credential that was stored before the login and the one the QR
\* service hands out.
OldCred(n) == [id |-> 1, len |-> n]
NewCred(n) == [id |-> 2, len |-> n]

CredFile(c) == [state |-> "ok", cred |-> c]
CorruptFile == [state |-> "corrupt", cred |-> NoCred]

\* CredentialManager.load_credential: self.credential after the call.
load_credential(file, mem) == IF file.state = "ok" THEN file.cred ELSE mem

\* with CREDENTIAL_FILE.open("wb") as f: pickle.dump(credential, f). open may
\* raise and leave the file as it was, dump may raise after open truncated it.
Dumped(file, c, w) ==
  IF w = "ok" THEN CredFile(c) ELSE IF w = "open_raised" THEN file ELSE CorruptFile

TerminalEvents == {"DONE", "TIMEOUT", "REFUSE"}
QREvents == {"SCAN", "CONF"} \cup TerminalEvents

InitLogin ==
  /\ BaseIdle("song")
  /\ meta = IdleMeta /\ cm = IdleCm /\ ui = IdleUi
  /\ \E prog \in {"signin", "credential"}, n \in SecretLens :
       \E file \in {AbsentFile, CorruptFile, CredFile(OldCred(n))} :
         tool = [IdleTool EXCEPT !.pc = "menu", !.prog = prog, !.file = file,
                                 !.mem = IF prog = "credential"
                                           THEN load_credential(file, NoCred)
                                           ELSE NoCred]

LoginStep(t) == tool' = t /\ UNCHANGED <<base, meta, cm, ui>>

\* qr_login is called: get_qrcode and qr.save(), or an exception of either.
LoginBegin ==
  /\ tool.pc = "menu"
  /\ \E ok \in BOOLEAN :
       LoginStep(IF ok
                   THEN [tool EXCEPT !.pc = "poll", !.file0 = tool.file,
                                     !.mem0 = tool.mem, !.qr_image = TRUE,
                                     !.result = "pending"]
                   ELSE [tool EXCEPT !.pc = "returned", !.file0 = tool.file,
                                     !.mem0 = tool.mem, !.result = "raised"])

\* The body of the loop after DONE in signin.py: the whole credential is
\* printed, the file is written (an exception leaves qr_login), the QR image
\* is removed.
SigninDone(t, c, w) ==
  IF w = "ok"
    THEN [t EXCEPT !.pc = "returned", !.printed = @ \cup PrintedWhole(c),
                   !.file = Dumped(@, c, w), !.qr_image = FALSE,
                   !.result = "credential"]
    ELSE [t EXCEPT !.pc = "returned", !.printed = @ \cup PrintedWhole(c),
                   !.file = Dumped(@, c, w), !.result = "raised"]

\* The same in credential.py: the user id is printed, self.credential is
\* set, save_credential catches the exception of the write and its result is
\* not read.
ManagerDone(t, c, w) ==
  [t EXCEPT !.pc = "returned",
            !.printed = @ \cup {<<"musicid", Value(c, "musicid")>>},
            !.mem = c, !.file = Dumped(@, c, w), !.qr_image = FALSE,
            !.result = "credential"]

\* await check_qrcode(qr) returns an event, or raises; then the loop body up
\* to the return or to asyncio.sleep(2).
Poll ==
  /\ tool.pc = "poll"
  /\ \E e \in QREvents \cup {"raise"}, w \in {"ok", "open_raised", "dump_raised"},
        n \in SecretLens :
       /\ tool.polls + 1 < MaxPolls \/ e \in TerminalEvents \cup {"raise"}
       /\ LET t == [tool EXCEPT !.polls = @ + 1, !.event = e]
              c == NewCred(n)
          IN LoginStep(
               CASE e = "raise" -> [t EXCEPT !.pc = "returned", !.result = "raised"]
                 [] e = "DONE" -> IF tool.prog = "signin" THEN SigninDone(t, c, w)
                                  ELSE ManagerDone(t, c, w)
                 [] e \in {"TIMEOUT", "REFUSE"} ->
                      [t EXCEPT !.pc = "returned", !.result = "none"]
                 [] OTHER -> [t EXCEPT !.pc = "sleep"])

\* asyncio.sleep(2) is over.
Wake ==
  /\ tool.pc = "sleep"
  /\ LoginStep([tool EXCEPT !.pc = "poll"])

\* Menu entry 3 of credential.py: show_credential_info. It returns at once
\* when load_credential returns None, and prints every field otherwise.
ShowInfo ==
  /\ tool.prog = "credential"
  /\ tool.pc \in {"menu", "returned"}
  /\ LET c == load_credential(tool.file, tool.mem)
     IN LoginStep([tool EXCEPT
          !.pc = "shown", !.mem = c,
          !.printed = IF tool.file.state = "ok"
                        THEN @ \cup {<<k, display_value(k, Value(c, k))>> :
                                       k \in CredentialFields}
                        ELSE @])

NextLogin == LoginBegin \/ Poll \/ Wake \/ ShowInfo

SpecLogin == InitLogin /\ [][NextLogin]_vars

\* C36: QR login outcome. qr_login sleeps and polls again only after an event
\* that is not DONE, TIMEOUT or REFUSE, and is over once such an event was
\* reported; it returns a credential only after DONE and, unless it raised,
\* always after DONE, and then the credential file holds that credential;
\* after TIMEOUT or REFUSE it returns None with the credential file and the
\* credential in memory as they were when it was called.
C36_LoginOutcome ==
  /\ tool.pc = "sleep" => tool.event \notin TerminalEvents
  /\ tool.event \in TerminalEvents => tool.pc \notin {"poll", "sleep"}
  /\ tool.pc = "returned" =>
       /\ tool.result = "credential" => tool.event = "DONE"
       /\ tool.event = "DONE" /\ tool.result # "raised" => tool.result = "credential"
       /\ tool.result = "credential" =>
            /\ tool.file.state = "ok"
            /\ tool.file.cred.id = 2
       /\ tool.event \in {"TIMEOUT", "REFUSE"} =>
            /\ tool.result = "none"
            /\ tool.file = tool.file0
            /\ tool.mem = tool.mem0

\* A printed text that is at most ten characters followed by "...".
Masked(text) ==
  /\ Len(text) >= 3
  /\ Len(text) <= 13
  /\ SubSeq(text, Len(text) - 2, Len(text)) = Dots

\* C39: Sensitive credential fields are only partly displayed. Every text
\* printed for a non-empty secret field (access token, refresh token, music
\* key, refresh key, cookie), by show_credential_info or by a login, is at
\* most the first ten characters of the value followed by "...".
C39_SecretsMasked ==
  \A e \in tool.printed :
    e[1] \in SecretFields /\ e[2] # <<>> => Masked(e[2])

\* ---------------------------------------------------------------------------
\* The interactive interface of songlist.py: one playlist, or all of them.

\* The dirId of the liked-songs playlist.
LIKED == 201

\* str(n) of a number below 100, as its digits.
Str(n) == IF n < 10 THEN <<n>> ELSE <<n \div 10, n % 10>>

\* The number a text of digits denotes.
RECURSIVE IntOf(_)
IntOf(d) ==
  IF d = <<>> THEN 0 ELSE 10 * IntOf(SubSeq(d, 1, Len(d) - 1)) + d[Len(d)]

\* Fault model: no user is taken for another user.
NeverOtherUser(has_cred, musicid, user_id) == FALSE

\* QQMusicDownloader._is_other_user: the credential is there and the text of
\* its musicid is not the text of the user id.
is_other_user(has_cred, musicid, user_id) == has_cred /\ Str(musicid) # user_id

OtherUser(u) == is_other_user(u.has_cred, u.musicid, u.user_id)

\* get_songlist_details up to its await: "empty" when it returns [] without
\* a request (no credential, or the liked songs of another user), "request"
\* when it asks the service for the tracks of the playlist.
get_songlist_details(u, k) ==
  IF ~u.has_cred THEN "empty"
  ELSE IF u.lists[k].dirId = LIKED /\ OtherUser(u) THEN "empty"
  ELSE "request"

\* The loop of _download_all_songlists from playlist k up to its next await,
\* or to its end.
RECURSIVE Loop(_, _)
Loop(u, k) ==
  IF k > Len(u.lists) THEN [u EXCEPT !.pc = "finished", !.i = k]
  ELSE IF u.lists[k].dirId = LIKED /\ OtherUser(u)
    THEN Loop([u EXCEPT !.skipped = @ \cup {k}], k + 1)
  ELSE IF get_songlist_details(u, k) = "request"
    THEN [u EXCEPT !.pc = "tracks", !.i = k, !.requests = @ \cup {k}]
  ELSE Loop([u EXCEPT !.got[k] = "empty"], k + 1)

\* The playlists a user has: a dirId and the number of tracks.
ListInfos == [dirId : {LIKED, 5}, n : 0..MaxTracks]

RECURSIVE SeqsUpTo(_, _)
SeqsUpTo(S, n) ==
  IF n = 0 THEN {<<>>}
  ELSE LET R == SeqsUpTo(S, n - 1) IN R \cup {Append(q, x) : q \in R, x \in S}

\* The typed user id: the credential's own id, the same with a leading zero,
\* and another user's.
UserIds == {<<7>>, <<0, 7>>, <<1, 2>>}

InitAll ==
  /\ BaseIdle("songlist")
  /\ meta = IdleMeta /\ cm = IdleCm /\ tool = IdleTool
  /\ \E has \in BOOLEAN, musicid \in {7, 12}, user_id \in UserIds,
        lists \in SeqsUpTo(ListInfos, MaxLists) \ {<<>>} :
       ui = [IdleUi EXCEPT !.pc = "menu", !.has_cred = has, !.musicid = musicid,
                           !.user_id = user_id, !.lists = lists]

UiStep(u) == ui' = u /\ UNCHANGED <<base, meta, cm, tool>>

\* 'all' is typed: _download_all_songlists up to its first await.
ChooseAll ==
  /\ ui.pc = "menu"
  /\ UiStep(Loop(ui, 1))

\* await get_songlist_details returns in the loop: the tracks, or [] after an
\* exception; with tracks download_songlist is called.
TracksAnswer ==
  /\ ui.pc = "tracks"
  /\ \E raised \in BOOLEAN :
       LET n == IF raised THEN 0 ELSE ui.lists[ui.i].n
       IN UiStep(IF n > 0 THEN [ui EXCEPT !.pc = "download", !.got[ui.i] = "songs"]
                 ELSE Loop([ui EXCEPT !.got[ui.i] = "empty"], ui.i + 1))

\* await download_songlist returns its two counts, which are added to the
\* totals, or raises out of the loop.
DownloadReturned ==
  /\ ui.pc = "download"
  /\ \E success \in 0..ui.lists[ui.i].n, raised \in BOOLEAN :
       LET failed == ui.lists[ui.i].n - success
       IN UiStep(IF raised THEN [ui EXCEPT !.pc = "raised"]
                 ELSE Loop([ui EXCEPT !.total_success = @ + success,
                                      !.total_failed = @ + failed,
                                      !.added[ui.i] = <<success, failed>>],
                           ui.i + 1))

\* A playlist number is typed: _handle_single_songlist, preview_songlist and
\* get_songlist_details up to its await.
ChooseOne ==
  /\ ui.pc = "menu"
  /\ \E k \in 1..Len(ui.lists) :
       UiStep(IF get_songlist_details(ui, k) = "request"
                THEN [ui EXCEPT !.pc = "preview", !.i = k, !.requests = @ \cup {k}]
                ELSE [ui EXCEPT !.pc = "previewed", !.i = k, !.got[k] = "empty"])

\* The tracks of the one playlist arrive, or [] after an exception.
PreviewAnswer ==
  /\ ui.pc = "preview"
  /\ \E raised \in BOOLEAN :
       UiStep([ui EXCEPT !.pc = "previewed",
                         !.got[ui.i] = IF raised \/ ui.lists[ui.i].n = 0
                                         THEN "empty" ELSE "songs"])

NextAll == ChooseAll \/ TracksAnswer \/ DownloadReturned \/ ChooseOne \/ PreviewAnswer

SpecAll == InitAll /\ [][NextAll]_vars

\* The playlists of the run that are the liked songs of a user other than
\* the one logged in.
LikedOfOther ==
  {k \in 1..Len(ui.lists) :
     ui.lists[k].dirId = LIKED /\ ui.has_cred /\ ui.musicid # IntOf(ui.user_id)}

\* C37: Another user's liked-songs playlist is never fetched. For a playlist
\* with dirId 201 and a logged-in musicid that differs from the requested
\* user id, the tracks are never requested, get_songlist_details returns
\* nothing but the empty list, and the download-all flow adds nothing for it
\* to the success and failure totals, which are the sums over the other
\* playlists.
C37_LikedOfOtherNeverFetched ==
  /\ \A k \in LikedOfOther :
       /\ k \notin ui.requests
       /\ ui.got[k] \in {"", "empty"}
       /\ ui.added[k] = <<0, 0>>
  /\ ui.pc = "finished" =>
       /\ \A k \in LikedOfOther : k \in ui.skipped
       /\ \A k \in 1..Len(ui.lists) : k \in ui.requests \/ ui.added[k] = <<0, 0>>

\* The download-all flow is over: it passed over the liked songs of another
\* user and counted the tracks of another playlist.
C37_Witness ==
  /\ ui.pc = "finished"
  /\ LikedOfOther # {}
  /\ ui.total_success + ui.total_failed > 0

====
